---- MODULE Spec2Model ----
(***************************************************************************)
(* The buffered turn controller (invoke) of the agentflow client, with the *)
(* tool dispatcher (ToolExecutor.executeToolCalls) it drives and the       *)
(* message serializer it uses to prepare the next turn's input.            *)
(*                                                                         *)
(* One run of invoke is modelled as a state machine whose steps are the    *)
(* code segments between two suspension points (await).  The remote agent  *)
(* service, the tool handlers and the observer callback are the            *)
(* environment: what they answer is chosen nondeterministically.           *)
(*                                                                         *)
(* The specifications share the variables and the dispatcher's actions:    *)
(* Spec is a run of invoke, SpecLive the same run under fair scheduling,   *)
(* SpecTwoRuns two interleaved runs, SpecTools the ToolExecutor used on    *)
(* its own (registerTool and executeToolCalls), SpecStream a run of the    *)
(* streaming turn controller, SpecDecoder and SpecSerializer the frame     *)
(* decoder and the message serializer on their own.                        *)
(***************************************************************************)
EXTENDS Integers, Sequences, FiniteSets, TLC

VARIABLES
    recursion_limit_arg, \* request.recursion_limit as given by the caller
    onPartialResult,     \* TRUE iff an observer callback was supplied
    toolExecutor,        \* TRUE iff context.toolExecutor is attached
    tools,               \* ToolExecutor.tools: Map name -> ToolDefinition
    toolsByNode,         \* ToolExecutor.toolsByNode: Map node -> Map name -> def
    registrations,       \* every registerTool call made so far, in order
    execInput,           \* executeToolCalls: the parameter messages
    handlerCalls,        \* every call of a tool handler, in order
    thrown,              \* the value the run rejected with; <<>> until then
    incoming,            \* stream: frames of the open stream not yet read
    yielded,             \* stream: every frame yielded to the caller
    responseMessages,    \* stream: const responseMessages of the current pass
    allMessages,         \* invoke: let allMessages
    currentMessages,     \* invoke: let currentMessages (pending input)
    iterations,          \* invoke: let iterations
    lastResponse,        \* invoke: let lastResponse; <<>> is undefined
    hasToolCalls,        \* invoke: const hasToolCalls of the current pass
    toolCalls,           \* executeToolCalls: const toolCalls
    results,             \* executeToolCalls: const results
    callIndex,           \* executeToolCalls: position of the for-of loop
    result,              \* the InvokeResult returned; <<>> until returned
    pc,                  \* where the run is suspended
    requests,            \* every request handed to the transport, in order
    responses,           \* every response the transport returned, in order
    batches,             \* every result list executeToolCalls returned
    partials,            \* every PartialResult handed to the observer
    log,                 \* every interaction with the environment, in order
    body,                \* decoder: the bytes of the response body
    unread,              \* decoder: the bytes no read has delivered yet
    reads,               \* decoder: every chunk a read delivered, in order
    buffer,              \* decoder: the bytes of the line not yet terminated
    decoded,             \* decoder: every frame yielded, in order
    toSerialize,         \* serializeMessage: the parameter message
    serialized,          \* serializeMessage: the value returned; <<>> before
    locals,              \* two runs: the bindings each call of invoke created
    invocations          \* two runs: where each call is, and what it exchanged

registryVars == <<tools, toolsByNode, registrations>>

streamVars == <<incoming, yielded, responseMessages>>

decoderVars == <<body, unread, reads, buffer, decoded>>

serializerVars == <<toSerialize, serialized>>

twoRunVars == <<locals, invocations>>

\* the variables of the units that are also exercised on their own
unitVars == <<decoderVars, serializerVars, twoRunVars>>

vars == <<recursion_limit_arg, onPartialResult, toolExecutor, registryVars,
          streamVars, unitVars, execInput, handlerCalls, thrown,
          allMessages, currentMessages, iterations, lastResponse,
          hasToolCalls, toolCalls, results, callIndex, result, pc,
          requests, responses, batches, partials, log>>

----------------------------------------------------------------------------
(* Bounds of the model *)

\* the largest recursion cap a caller passes
MaxCap == 3

\* request.recursion_limit || 25
DefaultRecursionLimit == 25

----------------------------------------------------------------------------
(* Messages and content blocks *)

\* message_id: string | null = null
Null == <<>>

ToolNames == {"t1", "t2"}

TextBlock(text) == [type |-> "text", text |-> text]

RemoteToolCallBlock(id, name) ==
    [type |-> "remote_tool_call", id |-> id, name |-> name,
     args |-> "args", tool_type |-> "remote"]

ToolResultBlock(call_id, output, status, is_error) ==
    [type |-> "tool_result", call_id |-> call_id, output |-> output,
     status |-> status, is_error |-> is_error]

\* new Message(role, content, message_id); metadata = {}
Message(role, content, message_id) ==
    [message_id |-> message_id, role |-> role, content |-> content,
     metadata |-> {}]

text_message(content, role) == Message(role, <<TextBlock(content)>>, Null)

\* faulty variant: the message gets the assistant role
tool_message_as_assistant(content) == Message("assistant", content, Null)

tool_message(content) == Message("tool", content, Null)

\* the messages the caller passes to invoke
InitialMessages == <<text_message("Hello", "user")>>

----------------------------------------------------------------------------
(* Optional fields: a JavaScript property that is undefined is a field the *)
(* record does not have.                                                   *)

Has(r, f) == f \in DOMAIN r

NoFields == [f \in {} |-> TRUE]

Field(f, v) == [g \in {f} |-> v]

----------------------------------------------------------------------------
(* The remote agent service: what one transport call may return.  The ids  *)
(* of the messages and of the tool-call requests carry the number k of the *)
(* transport call, so that messages of different turns are different.      *)

ResponseKinds == {"text", "call_t1", "call_t2", "mixed", "none"}

AssistantText(k, i) == Message("assistant", <<TextBlock("reply")>>, <<k, i>>)

ResponseMessages(kind, k) ==
    CASE kind = "text" -> <<AssistantText(k, 1)>>
      [] kind = "call_t1" ->
            <<Message("assistant", <<RemoteToolCallBlock(<<k, 1>>, "t1")>>,
                      <<k, 1>>)>>
      [] kind = "call_t2" ->
            <<Message("assistant", <<RemoteToolCallBlock(<<k, 1>>, "t2")>>,
                      <<k, 1>>)>>
      [] kind = "mixed" ->
            <<AssistantText(k, 1),
              Message("assistant",
                      <<TextBlock("thinking"),
                        RemoteToolCallBlock(<<k, 1>>, "t2"),
                        RemoteToolCallBlock(<<k, 2>>, "t1")>>,
                      <<k, 2>>)>>
      [] OTHER -> <<>>

ResponseData(kind, k) ==
    [state |-> <<"state", k>>, context |-> <<"context", k>>,
     summary |-> <<"summary", k>>,
     meta |-> [is_new_thread |-> (k = 1), thread_id |-> "thread-123"]]
    @@ (IF kind = "none" THEN NoFields
        ELSE Field("messages", ResponseMessages(kind, k)))

ServerResponse(kind, k) ==
    [data |-> ResponseData(kind, k),
     metadata |-> [request_id |-> <<"req", k>>, message |-> "OK"]]

----------------------------------------------------------------------------
(* Tool handlers: how one call of a registered handler may settle.         *)

Undefined == [undefined |-> TRUE]

\* an empty array: Array.isArray(value) && value.length === 0
EmptyArray == [array |-> <<>>]

\* returned values: a string, or an empty list
HandlerReturns == {[value |-> "tool executed"], EmptyArray}

\* what each handler returns when it succeeds: h1 returns a string, h2
\* returns an empty list
ReturnsOf(handler) ==
    IF handler = "h1" THEN {[value |-> "tool executed"]} ELSE {EmptyArray}

\* thrown values: an Error with a message, or any other value (here a
\* string)
HandlerThrows ==
    {[isError |-> TRUE, message |-> "boom"],
     [isError |-> FALSE, type |-> "string", value |-> "String error"]}

\* what each handler throws when it fails: h1 throws an Error, h2 throws a
\* value that is not an Error
ThrowsOf(handler) ==
    {error \in HandlerThrows : error.isError <=> (handler = "h1")}

Digit(d) ==
    CASE d = 0 -> "0" [] d = 1 -> "1" [] d = 2 -> "2" [] d = 3 -> "3"
      [] d = 4 -> "4" [] d = 5 -> "5" [] d = 6 -> "6" [] d = 7 -> "7"
      [] d = 8 -> "8" [] d = 9 -> "9"

RECURSIVE Decimal(_)
Decimal(n) == IF n < 10 THEN Digit(n) ELSE Decimal(n \div 10) \o Digit(n % 10)

\* String(v) of a thrown value that is not an Error: a string is itself, a
\* number is its decimal representation
String(v) == IF v.type = "string" THEN v.value ELSE Decimal(v.value)

\* faulty variant: what was thrown is not looked at
errorMessageUnknown(error) == "Unknown error"

\* error instanceof Error ? error.message : String(error)
errorMessage(error) ==
    IF error.isError THEN error.message ELSE String(error)

----------------------------------------------------------------------------
(* The transport: how one call of makeSingleInvokeCall may fail.           *)

\* the statuses of a response that is not ok
HttpErrorStatuses == {400, 401, 404, 418, 422, 500}

FailureCauses ==
    {[kind |-> "http", status |-> s] : s \in HttpErrorStatuses}
    \cup {[kind |-> "timeout"], [kind |-> "network"]}

\* what makeSingleInvokeCall throws: a plain Error for a response that is
\* not ok (rethrown by its catch block), a plain Error for an abort by the
\* timer, the exception of fetch itself otherwise
makeSingleInvokeCallError(cause) ==
    CASE cause.kind = "http" ->
            [class |-> "Error",
             message |-> "HTTP error! status: " \o Decimal(cause.status)]
      [] cause.kind = "timeout" ->
            [class |-> "Error", message |-> "Request timeout"]
      [] OTHER -> [class |-> "TypeError", message |-> "fetch failed"]

\* createErrorFromResponse for an error body without an error code: the
\* class is chosen from the status
createErrorFromResponse(status) ==
    CASE status = 400 -> "BadRequestError"
      [] status = 401 -> "AuthenticationError"
      [] status = 403 -> "PermissionError"
      [] status = 404 -> "NotFoundError"
      [] status = 422 -> "ValidationError"
      [] status \in {500, 502, 503, 504} -> "ServerError"
      [] OTHER -> "AgentFlowError"

\* what the observer callback throws
ObserverError == [class |-> "Error", message |-> "observer failed"]

----------------------------------------------------------------------------
(* invoke.ts: pure helpers *)

\* request.recursion_limit || 25  (0 stands for a limit that is not given)
RecursionLimit(arg) == IF arg = 0 THEN DefaultRecursionLimit ELSE arg

recursion_limit == RecursionLimit(recursion_limit_arg)

\* faulty variant: only the first message of the response is inspected
hasRemoteToolCallsFirstOnly(response) ==
    IF ~Has(response, "data") \/ ~Has(response.data, "messages") THEN FALSE
    ELSE /\ Len(response.data.messages) > 0
         /\ \E j \in 1..Len(response.data.messages[1].content) :
                response.data.messages[1].content[j].type = "remote_tool_call"

hasRemoteToolCalls(response) ==
    IF ~Has(response, "data") \/ ~Has(response.data, "messages") THEN FALSE
    ELSE \E i \in 1..Len(response.data.messages) :
            \E j \in 1..Len(response.data.messages[i].content) :
                response.data.messages[i].content[j].type = "remote_tool_call"

\* the fields of a content block whose value can be an array or undefined;
\* the other fields hold strings, booleans and ids
ArrayOrOptionalFields == {"output", "annotations", "details"}

\* faulty variant: undefined values are copied
CleanBlockKeepsUndefined(block) ==
    [f \in {g \in DOMAIN block :
              ~(g \in ArrayOrOptionalFields /\ block[g] = EmptyArray)}
        |-> block[f]]

\* cleanContent's per-block copy: empty arrays and undefined values are
\* skipped
CleanBlock(block) ==
    [f \in {g \in DOMAIN block :
              ~(g \in ArrayOrOptionalFields
                  /\ block[g] \in {Undefined, EmptyArray})}
        |-> block[f]]

cleanContent(content) ==
    IF Len(content) = 1 /\ content[1].type = "text"
    THEN content[1].text
    ELSE [i \in 1..Len(content) |-> CleanBlock(content[i])]

\* the sentinel 0 ("server will generate one") is written <<0>>
serializeMessage(message) ==
    [role |-> message.role,
     content |-> cleanContent(message.content),
     message_id |-> IF message.message_id # Null THEN message.message_id
                    ELSE <<0>>]
    @@ (IF Has(message, "tools_calls")
        THEN Field("tools_calls", message.tools_calls) ELSE NoFields)
    @@ (IF Has(message, "metadata") /\ Cardinality(message.metadata) > 0
        THEN Field("metadata", message.metadata) ELSE NoFields)

SerializeAll(msgs) == [i \in 1..Len(msgs) |-> serializeMessage(msgs[i])]

----------------------------------------------------------------------------
(* tools.ts: pure helpers *)

RECURSIVE FlattenBlocks(_)
FlattenBlocks(messages) ==
    IF messages = <<>> THEN <<>>
    ELSE Head(messages).content \o FlattenBlocks(Tail(messages))

\* faulty variant: a tool_call block counts as a request, too
IsAnyToolCall(block) == block.type \in {"remote_tool_call", "tool_call"}

IsRemoteToolCall(block) == block.type = "remote_tool_call"

\* faulty variant: the requests are collected last to first
ExtractToolCallsReversed(messages) ==
    LET found == SelectSeq(FlattenBlocks(messages), IsRemoteToolCall)
    IN [i \in 1..Len(found) |-> found[Len(found) + 1 - i]]

\* faulty variant: only the first message is searched
ExtractToolCallsFirstMessage(messages) ==
    IF messages = <<>> THEN <<>>
    ELSE SelectSeq(Head(messages).content, IsRemoteToolCall)

\* executeToolCalls, first loop: every remote_tool_call block, in message
\* order and then block order
ExtractToolCalls(messages) == SelectSeq(FlattenBlocks(messages), IsRemoteToolCall)

CompletedResult(call, output) ==
    tool_message(<<ToolResultBlock(call.id, output, "completed", FALSE)>>)

FailedResult(call, message) ==
    tool_message(<<ToolResultBlock(call.id, [error |-> message], "failed", TRUE)>>)

\* faulty variant: the message does not name the tool
NotFoundMessageNoName(toolName) == "Tool not found"

\* `Tool '${toolName}' not found`
NotFoundMessage(toolName) == "Tool '" \o toolName \o "' not found"

----------------------------------------------------------------------------
(* tools.ts: the registry.  A JavaScript Map is the sequence of its       *)
(* entries in insertion order; set() of a key already present replaces the *)
(* value in place and keeps the position.                                  *)

MapHas(m, k) == \E i \in 1..Len(m) : m[i].key = k

MapIndex(m, k) == CHOOSE i \in 1..Len(m) : m[i].key = k

MapGet(m, k) == m[MapIndex(m, k)].value

\* faulty variant: set() always adds an entry
MapSetAppend(m, k, v) == Append(m, [key |-> k, value |-> v])

MapSet(m, k, v) ==
    IF MapHas(m, k) THEN [m EXCEPT ![MapIndex(m, k)].value = v]
    ELSE Append(m, [key |-> k, value |-> v])

MapValues(m) == [i \in 1..Len(m) |-> m[i].value]

\* interface ToolRegistration: description and parameters are optional
Registration(node, name, handler) ==
    [node |-> node, name |-> name, handler |-> handler]

Described(registration) ==
    registration @@ [description |-> "Get weather", parameters |-> "schema"]

\* the registrations a caller makes: a name is registered for node n1 with
\* handler h1, or for node n2 with handler h2, a description and parameters
Registrations ==
    {Registration("n1", name, "h1") : name \in ToolNames}
    \cup {Described(Registration("n2", name, "h2")) : name \in ToolNames}

\* registerTool: const toolDef, the wrapper of registration.handler with the
\* properties name, description, parameters and node
ToolDef(registration) ==
    [name |-> registration.name, node |-> registration.node,
     handler |-> registration.handler]
    @@ (IF Has(registration, "description")
        THEN Field("description", registration.description) ELSE NoFields)
    @@ (IF Has(registration, "parameters")
        THEN Field("parameters", registration.parameters) ELSE NoFields)

\* new ToolExecutor(): both maps are empty
NewToolExecutor == [tools |-> <<>>, toolsByNode |-> <<>>]

\* registerTool(registration), on the executor with the maps ex.tools and
\* ex.toolsByNode
\* faulty variant: a name that is registered keeps its first definition
registerToolKeepsFirst(ex, registration) ==
    IF MapHas(ex.tools, registration.name) THEN ex
    ELSE [tools |-> MapSet(ex.tools, registration.name, ToolDef(registration)),
          toolsByNode |-> ex.toolsByNode]

registerTool(ex, registration) ==
    LET toolDef == ToolDef(registration)
        nodeTools == IF MapHas(ex.toolsByNode, registration.node)
                     THEN MapGet(ex.toolsByNode, registration.node)
                     ELSE <<>>
    IN [tools |-> MapSet(ex.tools, registration.name, toolDef),
        toolsByNode |-> MapSet(ex.toolsByNode, registration.node,
                               MapSet(nodeTools, registration.name, toolDef))]

\* the executor after the registrations regs, made in this order
RECURSIVE RegisterAll(_, _)
RegisterAll(ex, regs) ==
    IF regs = <<>> THEN ex
    ELSE RegisterAll(registerTool(ex, Head(regs)), Tail(regs))

getToolsForNode(byNode, node) ==
    IF MapHas(byNode, node) THEN MapValues(MapGet(byNode, node)) ELSE <<>>

DefaultParameters == [type |-> "object", properties |-> {}, required |-> <<>>]

\* all_tools(): one descriptor per entry of the map, in insertion order
all_tools(m) ==
    [i \in 1..Len(m) |->
        [type |-> "function",
         function |->
            [name |-> m[i].key,
             description |-> IF Has(m[i].value, "description")
                             THEN m[i].value.description
                             ELSE "Execute " \o m[i].key,
             parameters |-> IF Has(m[i].value, "parameters")
                            THEN m[i].value.parameters
                            ELSE DefaultParameters]]]


----------------------------------------------------------------------------
(* invoke.ts: the run *)

\* the caller's request, apart from its messages and its recursion limit
initial_state == "initial_state"
config == "config"
response_granularity == "full"

\* faulty variant: the loop admits one pass too many
LoopConditionOffByOne(i, limit) == i <= limit

\* while (iterations < recursion_limit)
LoopCondition(i, limit) == i < limit

\* faulty variant: the counter is advanced twice in a pass
NextIterationTwice(i) == i + 2

\* iterations++
NextIteration(i) == i + 1

\* faulty variant: the caller's messages are sent again in every pass
IterationRequestResendsInitial(messages, i, limit) ==
    [messages |-> IF i = 1 THEN messages ELSE InitialMessages \o messages,
     config |-> config, recursion_limit |-> limit,
     response_granularity |-> response_granularity]
    @@ (IF i = 1 THEN Field("initial_state", initial_state) ELSE NoFields)

\* faulty variant: the initial state is sent in every pass
IterationRequestAlwaysState(messages, i, limit) ==
    [messages |-> messages, config |-> config, recursion_limit |-> limit,
     response_granularity |-> response_granularity,
     initial_state |-> initial_state]

\* const iterationRequest, as JSON.stringify puts it on the wire
IterationRequest(messages, i, limit) ==
    [messages |-> messages, config |-> config, recursion_limit |-> limit,
     response_granularity |-> response_granularity]
    @@ (IF i = 1 THEN Field("initial_state", initial_state) ELSE NoFields)

\* faulty variant: new messages are put in front of the history
PushAllFront(all, more) == more \o all

\* allMessages.push(...more)
PushAll(all, more) == all \o more

\* faulty variant: the iteration index of a partial result is 0-based
PartialResultZeroBased(i, response, toolCallsPresent) ==
    [iteration |-> i - 1,
     state |-> response.data.state,
     context |-> response.data.context,
     summary |-> response.data.summary,
     meta |-> response.data.meta,
     has_tool_calls |-> toolCallsPresent,
     is_final |-> ~toolCallsPresent]
    @@ (IF Has(response.data, "messages")
        THEN Field("messages", response.data.messages) ELSE NoFields)

\* const partialResult
PartialResult(i, response, toolCallsPresent) ==
    [iteration |-> i,
     state |-> response.data.state,
     context |-> response.data.context,
     summary |-> response.data.summary,
     meta |-> response.data.meta,
     has_tool_calls |-> toolCallsPresent,
     is_final |-> ~toolCallsPresent]
    @@ (IF Has(response.data, "messages")
        THEN Field("messages", response.data.messages) ELSE NoFields)

\* faulty variant: the observer's promise is not awaited
ObserverNotAwaited == "dispatch"

\* await onPartialResult(partialResult): the run is suspended until the
\* observer settles
AwaitObserver == "observer"

\* if (iterations >= recursion_limit) recursionLimitReached = true
LimitReached(i, limit) == i >= limit

\* const result
InvokeResult(last, all, i, limit) ==
    [messages |-> IF last # <<>> /\ Has(last[1].data, "messages")
                  THEN last[1].data.messages ELSE <<>>,
     meta |-> IF last # <<>> THEN last[1].data.meta
              ELSE [is_new_thread |-> FALSE, thread_id |-> ""],
     all_messages |-> all,
     iterations |-> i,
     recursion_limit_reached |-> LimitReached(i, limit)]
    @@ (IF last # <<>>
        THEN [state |-> last[1].data.state, context |-> last[1].data.context,
              summary |-> last[1].data.summary]
        ELSE NoFields)

Event(ev, k, id) == [ev |-> ev, k |-> k, id |-> id]

\* the registrations made before a run of invoke
RegistryChoices ==
    {<<>>,
     <<Registration("n1", "t1", "h1")>>,
     <<Registration("n1", "t1", "h1"),
       Described(Registration("n2", "t2", "h2"))>>}

\* the state outside the run of invoke: nothing is streamed
NoStream ==
    /\ incoming = <<>>
    /\ yielded = <<>>
    /\ responseMessages = <<>>

\* no body is being decoded
NoDecoder ==
    /\ body = <<>>
    /\ unread = <<>>
    /\ reads = <<>>
    /\ buffer = <<>>
    /\ decoded = <<>>

\* no message is being serialized on its own
NoSerializer ==
    /\ toSerialize = <<>>
    /\ serialized = <<>>

\* no second run: nothing has been called through the two-run model
NoTwoRuns ==
    /\ locals = <<>>
    /\ invocations = <<>>

Init ==
    /\ recursion_limit_arg \in 1..MaxCap
    /\ onPartialResult \in BOOLEAN
    /\ toolExecutor \in BOOLEAN
    /\ registrations \in RegistryChoices
    /\ (~toolExecutor => registrations = <<>>)
    /\ tools = RegisterAll(NewToolExecutor, registrations).tools
    /\ toolsByNode = RegisterAll(NewToolExecutor, registrations).toolsByNode
    /\ NoStream
    /\ NoDecoder
    /\ NoSerializer
    /\ NoTwoRuns
    /\ execInput = <<>>
    /\ handlerCalls = <<>>
    /\ thrown = <<>>
    /\ allMessages = <<>>
    /\ currentMessages = InitialMessages
    /\ iterations = 0
    /\ lastResponse = <<>>
    /\ hasToolCalls = FALSE
    /\ toolCalls = <<>>
    /\ results = <<>>
    /\ callIndex = 1
    /\ result = <<>>
    /\ pc = "loop"
    /\ requests = <<>>
    /\ responses = <<>>
    /\ batches = <<>>
    /\ partials = <<>>
    /\ log = <<>>

\* lines 238-263: the code after the loop
Finish ==
    /\ result' = <<InvokeResult(lastResponse, allMessages, iterations,
                                recursion_limit)>>
    /\ pc' = "returned"

\* lines 156-177: the loop is entered and the transport call is issued
LoopEnter ==
    /\ pc = "loop"
    /\ LoopCondition(iterations, recursion_limit)
    /\ iterations' = NextIteration(iterations)
    /\ requests' = Append(requests,
                          IterationRequest(currentMessages, iterations',
                                           recursion_limit))
    /\ log' = Append(log, Event("request", iterations', Null))
    /\ pc' = "transport"
    /\ UNCHANGED <<unitVars, recursion_limit_arg, onPartialResult, toolExecutor, registryVars,
                   streamVars, execInput, handlerCalls, thrown,
                   allMessages, currentMessages, lastResponse, hasToolCalls,
                   toolCalls, results, callIndex, result, responses, batches, partials>>

\* line 156 with the condition false, then lines 238-263
LoopExit ==
    /\ pc = "loop"
    /\ ~LoopCondition(iterations, recursion_limit)
    /\ Finish
    /\ log' = Append(log, Event("limit", iterations, Null))
    /\ UNCHANGED <<unitVars, recursion_limit_arg, onPartialResult, toolExecutor, registryVars,
                   streamVars, execInput, handlerCalls, thrown,
                   allMessages, currentMessages, iterations, lastResponse,
                   hasToolCalls, toolCalls, results, callIndex, requests,
                   responses, batches, partials>>

\* lines 177-206: the transport call returns a response
TransportReturn(kind) ==
    /\ pc = "transport"
    /\ LET response == ServerResponse(kind, Len(requests))
           present == hasRemoteToolCalls(response)
       IN /\ lastResponse' = <<response>>
          /\ responses' = Append(responses, response)
          /\ allMessages' = IF Has(response.data, "messages")
                            THEN PushAll(allMessages, response.data.messages)
                            ELSE allMessages
          /\ hasToolCalls' = present
          /\ IF onPartialResult
             THEN /\ partials' = Append(partials,
                                        PartialResult(iterations, response, present))
                  /\ log' = log \o <<Event("response", iterations, Null),
                                     Event("emit", iterations, Null)>>
                  /\ pc' = AwaitObserver
             ELSE /\ partials' = partials
                  /\ log' = Append(log, Event("response", iterations, Null))
                  /\ pc' = "dispatch"
    /\ UNCHANGED <<unitVars, recursion_limit_arg, onPartialResult, toolExecutor, registryVars,
                   streamVars, execInput, handlerCalls, thrown,
                   currentMessages, iterations, toolCalls, results, callIndex,
                   result, requests, batches>>

\* faulty variant: a failed transport call is tried again
OnTransportErrorRetry == "loop"

\* line 177: the exception of makeSingleInvokeCall is not caught by invoke,
\* the promise of invoke rejects
OnTransportError == "failed"

\* makeSingleInvokeCall throws (non-success status, network error, timeout)
TransportFail(cause) ==
    /\ pc = "transport"
    /\ pc' = OnTransportError
    /\ thrown' = <<makeSingleInvokeCallError(cause)>>
    /\ log' = Append(log, Event("transport_error", iterations, Null))
    /\ UNCHANGED <<unitVars, recursion_limit_arg, onPartialResult, toolExecutor, registryVars,
                   streamVars, execInput, handlerCalls,
                   allMessages, currentMessages, iterations, lastResponse,
                   hasToolCalls, toolCalls, results, callIndex, result,
                   requests, responses, batches, partials>>

\* line 206: the observer's promise resolves
ObserverSettle ==
    /\ pc = "observer"
    /\ pc' = "dispatch"
    /\ log' = Append(log, Event("settled", iterations, Null))
    /\ UNCHANGED <<unitVars, recursion_limit_arg, onPartialResult, toolExecutor, registryVars,
                   streamVars, execInput, handlerCalls, thrown,
                   allMessages, currentMessages, iterations, lastResponse,
                   hasToolCalls, toolCalls, results, callIndex, result,
                   requests, responses, batches, partials>>

\* faulty variant: the observer's failure is swallowed and the run goes on
OnObserverErrorIgnored == "dispatch"

\* line 206: the await is in no try block, the promise of invoke rejects
OnObserverError == "failed"

\* line 206: the observer throws or its promise rejects
ObserverReject ==
    /\ pc = "observer"
    /\ pc' = OnObserverError
    /\ thrown' = <<ObserverError>>
    /\ log' = Append(log, Event("observer_error", iterations, Null))
    /\ UNCHANGED <<unitVars, recursion_limit_arg, onPartialResult, toolExecutor, registryVars,
                   streamVars, execInput, handlerCalls,
                   allMessages, currentMessages, iterations, lastResponse,
                   hasToolCalls, toolCalls, results, callIndex, result,
                   requests, responses, batches, partials>>


\* line 209 true, then executeToolCalls lines 139-152: the tool-call
\* requests of the response are extracted
DispatchTools ==
    /\ pc = "dispatch"
    /\ hasToolCalls /\ toolExecutor
    /\ execInput' = lastResponse[1].data.messages
    /\ toolCalls' = ExtractToolCalls(execInput')
    /\ results' = <<>>
    /\ callIndex' = 1
    /\ pc' = "exec"
    /\ UNCHANGED <<unitVars, recursion_limit_arg, onPartialResult, toolExecutor, registryVars,
                   streamVars, handlerCalls, thrown,
                   allMessages, currentMessages, iterations, lastResponse,
                   hasToolCalls, result, requests, responses, batches, partials, log>>

\* line 209 false: break, then lines 238-263
Break ==
    /\ pc = "dispatch"
    /\ ~(hasToolCalls /\ toolExecutor)
    /\ Finish
    /\ log' = Append(log, Event("break", iterations, Null))
    /\ UNCHANGED <<unitVars, recursion_limit_arg, onPartialResult, toolExecutor, registryVars,
                   streamVars, execInput, handlerCalls, thrown,
                   allMessages, currentMessages, iterations, lastResponse,
                   hasToolCalls, toolCalls, results, callIndex, requests,
                   responses, batches, partials>>

\* executeToolCalls lines 177-182: the name is not in the registry
ExecNotFound ==
    /\ pc = "exec"
    /\ callIndex <= Len(toolCalls)
    /\ ~MapHas(tools, toolCalls[callIndex].name)
    /\ results' = Append(results,
                         FailedResult(toolCalls[callIndex],
                                      NotFoundMessage(toolCalls[callIndex].name)))
    /\ callIndex' = callIndex + 1
    /\ log' = Append(log, Event("not_found", iterations, toolCalls[callIndex].id))
    /\ UNCHANGED <<unitVars, recursion_limit_arg, onPartialResult, toolExecutor, registryVars,
                   streamVars, execInput, handlerCalls, thrown,
                   allMessages, currentMessages, iterations, lastResponse,
                   hasToolCalls, toolCalls, result, pc, requests, responses, batches,
                   partials>>

\* one call of a handler: the tool found under the name, the request it
\* answers, the number of registrations made before the lookup and the
\* number of the executeToolCalls call it is part of
HandlerCall(tool, call, registered, batch) ==
    [handler |-> tool.handler, name |-> call.name, id |-> call.id,
     args |-> call.args, registered |-> registered, batch |-> batch]

\* faulty variant: reading an entry takes it out of the Map
MapAfterGetDeletes(m, key) ==
    LET Other(entry) == entry.key # key IN SelectSeq(m, Other)

\* this.tools.has and this.tools.get read the Map and leave it as it is
MapAfterGet(m, key) == m

\* faulty variant: the loop goes on without waiting for the handler
HandlerNotAwaited == "exec"

\* await tool(call.args): the loop is suspended until the handler settles
AwaitHandler == "handler"

\* executeToolCalls lines 158-163: the handler is looked up and called
ExecStart ==
    /\ pc = "exec"
    /\ callIndex <= Len(toolCalls)
    /\ MapHas(tools, toolCalls[callIndex].name)
    /\ handlerCalls' = Append(handlerCalls,
                              HandlerCall(MapGet(tools, toolCalls[callIndex].name),
                                          toolCalls[callIndex],
                                          Len(registrations),
                                          Len(batches) + 1))
    /\ tools' = MapAfterGet(tools, toolCalls[callIndex].name)
    /\ pc' = AwaitHandler
    /\ log' = Append(log, Event("handler", iterations, toolCalls[callIndex].id))
    /\ UNCHANGED <<unitVars, recursion_limit_arg, onPartialResult, toolExecutor,
                   toolsByNode, registrations, streamVars, execInput, thrown,
                   allMessages, currentMessages, iterations, lastResponse,
                   hasToolCalls, toolCalls, results, callIndex, result,
                   requests, responses, batches, partials>>

\* executeToolCalls lines 163-168: the handler's promise resolves
HandlerResolve(output) ==
    /\ pc = "handler"
    /\ output \in ReturnsOf(handlerCalls[Len(handlerCalls)].handler)
    /\ results' = Append(results, CompletedResult(toolCalls[callIndex], output))
    /\ callIndex' = callIndex + 1
    /\ pc' = "exec"
    /\ log' = Append(log, Event("handler_done", iterations, toolCalls[callIndex].id))
    /\ UNCHANGED <<unitVars, recursion_limit_arg, onPartialResult, toolExecutor, registryVars,
                   streamVars, execInput, handlerCalls, thrown,
                   allMessages, currentMessages, iterations, lastResponse,
                   hasToolCalls, toolCalls, result, requests, responses, batches,
                   partials>>

\* faulty variant: the error of a handler leaves executeToolCalls and ends
\* the run
OnHandlerErrorRethrown == "failed"

\* executeToolCalls lines 169-176: the catch block keeps the error of a
\* handler inside the loop, which goes on with the next request
OnHandlerError == "exec"

\* executeToolCalls lines 169-176: the handler throws or rejects
HandlerThrow(error) ==
    /\ pc = "handler"
    /\ error \in ThrowsOf(handlerCalls[Len(handlerCalls)].handler)
    /\ results' = Append(results,
                         FailedResult(toolCalls[callIndex], errorMessage(error)))
    /\ callIndex' = callIndex + 1
    /\ pc' = OnHandlerError
    /\ log' = Append(log, Event("handler_threw", iterations, toolCalls[callIndex].id))
    /\ UNCHANGED <<unitVars, recursion_limit_arg, onPartialResult, toolExecutor, registryVars,
                   streamVars, execInput, handlerCalls, thrown,
                   allMessages, currentMessages, iterations, lastResponse,
                   hasToolCalls, toolCalls, result, requests, responses, batches,
                   partials>>

\* faulty variant: executeToolCalls returns without waiting for the calls
\* that are left
ForOfDoneEarly(index, calls) == TRUE

\* executeToolCalls line 155: the for-of loop has gone through every call
ForOfDone(index, calls) == index > Len(calls)

\* executeToolCalls line 185, then invoke lines 215-228: the results are
\* added to the history and become the pending input
ExecReturn ==
    /\ pc = "exec"
    /\ ForOfDone(callIndex, toolCalls)
    /\ allMessages' = PushAll(allMessages, results)
    /\ currentMessages' = SerializeAll(results)
    /\ batches' = Append(batches, results)
    /\ pc' = "loop"
    /\ UNCHANGED <<unitVars, recursion_limit_arg, onPartialResult, toolExecutor, registryVars,
                   streamVars, execInput, handlerCalls, thrown,
                   iterations, lastResponse, hasToolCalls, toolCalls, results,
                   callIndex, result, requests, responses, partials, log>>

Next ==
    \/ LoopEnter
    \/ LoopExit
    \/ \E kind \in ResponseKinds : TransportReturn(kind)
    \/ \E cause \in FailureCauses : TransportFail(cause)
    \/ ObserverSettle
    \/ ObserverReject
    \/ DispatchTools
    \/ Break
    \/ ExecNotFound
    \/ ExecStart
    \/ \E output \in HandlerReturns : HandlerResolve(output)
    \/ \E error \in HandlerThrows : HandlerThrow(error)
    \/ ExecReturn

Spec == Init /\ [][Next]_vars

\* the steps of a run whose transport calls all return a response: every
\* step of Next but the failure of the transport call
NextLive ==
    \/ LoopEnter
    \/ LoopExit
    \/ \E kind \in ResponseKinds : TransportReturn(kind)
    \/ ObserverSettle
    \/ ObserverReject
    \/ DispatchTools
    \/ Break
    \/ ExecNotFound
    \/ ExecStart
    \/ \E output \in HandlerReturns : HandlerResolve(output)
    \/ \E error \in HandlerThrows : HandlerThrow(error)
    \/ ExecReturn

\* the run under the scheduling of the event loop: a continuation that is
\* ready is run, every transport call returns a response, and every
\* handler and every observer call settles (resolves or rejects)
SpecLive == Init /\ [][NextLive]_vars /\ WF_vars(NextLive)

----------------------------------------------------------------------------
(* Two runs of invoke on the same client and the same dispatcher.  The     *)
(* bindings a call of invoke creates (lines 145-153) live in a frame; the  *)
(* steps of the two runs interleave at their suspension points.            *)

RunIds == {1, 2}

MaxRunCap == 2

\* what the service answers in the two-run model
RunKinds == {"text", "call_t1"}

\* the dispatcher both runs use: t1 is registered with the handler h1
RunTools == RegisterAll(NewToolExecutor, <<Registration("n1", "t1", "h1")>>).tools

\* request.messages of the two invocations
RunMessages(r) == <<text_message(IF r = 1 THEN "Hello" ELSE "Hi", "user")>>

\* the number of the transport call that is the k-th call of run r
TransportCall(r, k) == 10 * r + k

\* faulty variant: the accumulators are bindings of the module, shared by
\* every call
FrameShared(r) == 1

\* lines 145-153: the accumulators are declared with let inside invoke, so
\* every call has bindings of its own
Frame(r) == r

\* lines 145-150: the bindings as a call creates them
NewFrame(r) ==
    [allMessages |-> <<>>, currentMessages |-> RunMessages(r),
     iterations |-> 0, lastResponse |-> <<>>]

InitTwoRuns ==
    /\ recursion_limit_arg = 0
    /\ onPartialResult = TRUE
    /\ toolExecutor = TRUE
    /\ registrations = <<Registration("n1", "t1", "h1")>>
    /\ tools = RunTools
    /\ toolsByNode = RegisterAll(NewToolExecutor, registrations).toolsByNode
    /\ NoStream
    /\ NoDecoder
    /\ NoSerializer
    /\ execInput = <<>>
    /\ handlerCalls = <<>>
    /\ thrown = <<>>
    /\ allMessages = <<>>
    /\ currentMessages = <<>>
    /\ iterations = 0
    /\ lastResponse = <<>>
    /\ hasToolCalls = FALSE
    /\ toolCalls = <<>>
    /\ results = <<>>
    /\ callIndex = 1
    /\ result = <<>>
    /\ pc = "two_runs"
    /\ requests = <<>>
    /\ responses = <<>>
    /\ batches = <<>>
    /\ partials = <<>>
    /\ log = <<>>
    /\ locals = [s \in RunIds |-> NewFrame(s)]
    /\ \E caps \in [RunIds -> 1..MaxRunCap] :
          invocations = [r \in RunIds |->
                      [pc |-> "start", recursion_limit |-> caps[r],
                       hasToolCalls |-> FALSE, toolCalls |-> <<>>,
                       results |-> <<>>, callIndex |-> 1, result |-> <<>>,
                       requests |-> <<>>, responses |-> <<>>,
                       batches |-> <<>>]]

\* the variables the two-run model leaves alone
oneRunVars == <<recursion_limit_arg, onPartialResult, toolExecutor, registryVars,
                streamVars, decoderVars, serializerVars, execInput,
                handlerCalls, thrown, allMessages, currentMessages,
                iterations, lastResponse, hasToolCalls, toolCalls, results,
                callIndex, result, pc, requests, responses, batches,
                partials, log>>

\* the bindings run r reads and writes
FrameOf(r) == locals[Frame(r)]

\* lines 145-153: the call starts and creates its bindings
RunStart(r) ==
    /\ invocations[r].pc = "start"
    /\ locals' = [locals EXCEPT ![Frame(r)] = NewFrame(r)]
    /\ invocations' = [invocations EXCEPT ![r].pc = "loop"]
    /\ UNCHANGED oneRunVars

\* lines 156-177
RunLoopEnter(r) ==
    /\ invocations[r].pc = "loop"
    /\ LoopCondition(FrameOf(r).iterations, invocations[r].recursion_limit)
    /\ locals' = [locals EXCEPT
                     ![Frame(r)].iterations = NextIteration(FrameOf(r).iterations)]
    /\ invocations' = [invocations EXCEPT
                    ![r].requests =
                        Append(@, IterationRequest(FrameOf(r).currentMessages,
                                                   NextIteration(FrameOf(r).iterations),
                                                   invocations[r].recursion_limit)),
                    ![r].pc = "transport"]
    /\ UNCHANGED oneRunVars

\* lines 238-263: what invoke returns
RunFinish(r) ==
    [invocations EXCEPT
        ![r].result = <<InvokeResult(FrameOf(r).lastResponse,
                                     FrameOf(r).allMessages,
                                     FrameOf(r).iterations,
                                     invocations[r].recursion_limit)>>,
        ![r].pc = "returned"]

\* line 156 with the condition false, then lines 238-263
RunLoopExit(r) ==
    /\ invocations[r].pc = "loop"
    /\ ~LoopCondition(FrameOf(r).iterations, invocations[r].recursion_limit)
    /\ invocations' = RunFinish(r)
    /\ UNCHANGED <<locals, oneRunVars>>

\* lines 177-206: the transport call of run r returns, the observer is
\* called
RunTransportReturn(r, kind) ==
    /\ invocations[r].pc = "transport"
    /\ LET response == ServerResponse(kind,
                                      TransportCall(r, Len(invocations[r].requests)))
       IN /\ locals' = [locals EXCEPT
                           ![Frame(r)].lastResponse = <<response>>,
                           ![Frame(r)].allMessages =
                               PushAll(@, response.data.messages)]
          /\ invocations' = [invocations EXCEPT
                          ![r].responses = Append(@, response),
                          ![r].hasToolCalls = hasRemoteToolCalls(response),
                          ![r].pc = AwaitObserver]
    /\ UNCHANGED oneRunVars

\* line 206: the observer's promise resolves
RunObserverSettle(r) ==
    /\ invocations[r].pc = "observer"
    /\ invocations' = [invocations EXCEPT ![r].pc = "dispatch"]
    /\ UNCHANGED <<locals, oneRunVars>>

\* line 209 true, line 215 and executeToolCalls lines 139-152: the requests
\* of the response of this pass (const response) are extracted
RunDispatchTools(r) ==
    /\ invocations[r].pc = "dispatch"
    /\ invocations[r].hasToolCalls /\ toolExecutor
    /\ LET response == invocations[r].responses[Len(invocations[r].responses)]
       IN invocations' = [invocations EXCEPT
                       ![r].toolCalls = ExtractToolCalls(response.data.messages),
                       ![r].results = <<>>,
                       ![r].callIndex = 1,
                       ![r].pc = "exec"]
    /\ UNCHANGED <<locals, oneRunVars>>

\* line 209 false: break, then lines 238-263
RunBreak(r) ==
    /\ invocations[r].pc = "dispatch"
    /\ ~(invocations[r].hasToolCalls /\ toolExecutor)
    /\ invocations' = RunFinish(r)
    /\ UNCHANGED <<locals, oneRunVars>>

\* executeToolCalls lines 158-163: the handler is looked up and called
RunExecStart(r) ==
    /\ invocations[r].pc = "exec"
    /\ invocations[r].callIndex <= Len(invocations[r].toolCalls)
    /\ MapHas(tools, invocations[r].toolCalls[invocations[r].callIndex].name)
    /\ invocations' = [invocations EXCEPT ![r].pc = AwaitHandler]
    /\ UNCHANGED <<locals, oneRunVars>>

\* executeToolCalls lines 163-176: the handler's promise settles, resolved
\* with a value or rejected with an error
RunHandlerSettle(r, outcome) ==
    /\ invocations[r].pc = "handler"
    /\ LET call == invocations[r].toolCalls[invocations[r].callIndex]
           handler == MapGet(tools, call.name).handler
           message ==
               IF outcome \in ReturnsOf(handler)
               THEN CompletedResult(call, outcome)
               ELSE FailedResult(call, errorMessage(outcome))
       IN /\ outcome \in ReturnsOf(handler) \cup ThrowsOf(handler)
          /\ invocations' = [invocations EXCEPT
                          ![r].results = Append(@, message),
                          ![r].callIndex = @ + 1,
                          ![r].pc = "exec"]
    /\ UNCHANGED <<locals, oneRunVars>>

\* executeToolCalls line 185, then invoke lines 215-228
RunExecReturn(r) ==
    /\ invocations[r].pc = "exec"
    /\ ForOfDone(invocations[r].callIndex, invocations[r].toolCalls)
    /\ locals' = [locals EXCEPT
                     ![Frame(r)].allMessages = PushAll(@, invocations[r].results),
                     ![Frame(r)].currentMessages = SerializeAll(invocations[r].results)]
    /\ invocations' = [invocations EXCEPT
                    ![r].batches = Append(@, invocations[r].results),
                    ![r].pc = "loop"]
    /\ UNCHANGED oneRunVars

NextTwoRuns ==
    \/ \E r \in RunIds : RunStart(r)
    \/ \E r \in RunIds : RunLoopEnter(r)
    \/ \E r \in RunIds : RunLoopExit(r)
    \/ \E r \in RunIds, kind \in RunKinds : RunTransportReturn(r, kind)
    \/ \E r \in RunIds : RunObserverSettle(r)
    \/ \E r \in RunIds : RunDispatchTools(r)
    \/ \E r \in RunIds : RunBreak(r)
    \/ \E r \in RunIds : RunExecStart(r)
    \/ \E r \in RunIds, outcome \in HandlerReturns \cup HandlerThrows :
          RunHandlerSettle(r, outcome)
    \/ \E r \in RunIds : RunExecReturn(r)

SpecTwoRuns == InitTwoRuns /\ [][NextTwoRuns]_vars

----------------------------------------------------------------------------
(* tools.ts: the ToolExecutor used on its own.  The caller registers tools *)
(* and calls executeToolCalls; registerTool is synchronous, so it runs     *)
(* between two calls or while executeToolCalls is suspended in a handler.  *)

\* the most registerTool calls made
MaxRegistrations == 2

\* the most executeToolCalls calls made
MaxBatches == 1

ToolCallBlock(id, name) ==
    [type |-> "tool_call", id |-> id, name |-> name, args |-> "args"]

\* the message lists passed to executeToolCalls
ExecInputs ==
    {<<>>,
     <<text_message("Hello", "user")>>,
     <<Message("assistant",
               <<TextBlock("local"), ToolCallBlock(<<0, 1>>, "t1")>>, Null)>>,
     <<Message("assistant", <<RemoteToolCallBlock(<<0, 1>>, "t1")>>, Null)>>,
     <<Message("assistant", <<RemoteToolCallBlock(<<0, 1>>, "t1")>>, Null),
       text_message("Some text", "user"),
       Message("assistant",
               <<RemoteToolCallBlock(<<0, 2>>, "t2"), TextBlock("then"),
                 RemoteToolCallBlock(<<0, 3>>, "t1")>>, Null)>>}

InitTools ==
    /\ recursion_limit_arg = 0
    /\ onPartialResult = FALSE
    /\ toolExecutor = TRUE
    /\ registrations = <<>>
    /\ tools = NewToolExecutor.tools
    /\ toolsByNode = NewToolExecutor.toolsByNode
    /\ NoStream
    /\ NoDecoder
    /\ NoSerializer
    /\ NoTwoRuns
    /\ execInput = <<>>
    /\ handlerCalls = <<>>
    /\ thrown = <<>>
    /\ allMessages = <<>>
    /\ currentMessages = <<>>
    /\ iterations = 0
    /\ lastResponse = <<>>
    /\ hasToolCalls = FALSE
    /\ toolCalls = <<>>
    /\ results = <<>>
    /\ callIndex = 1
    /\ result = <<>>
    /\ pc = "idle"
    /\ requests = <<>>
    /\ responses = <<>>
    /\ batches = <<>>
    /\ partials = <<>>
    /\ log = <<>>

\* the variables of invoke, which is not running
invokeVars == <<recursion_limit_arg, onPartialResult, toolExecutor,
                allMessages, currentMessages, iterations, lastResponse,
                hasToolCalls, result, requests, responses, partials, thrown>>

\* registerTool lines 64-99
Register(registration) ==
    /\ pc \in {"idle", "handler"}
    /\ Len(registrations) < MaxRegistrations
    /\ tools' = registerTool([tools |-> tools, toolsByNode |-> toolsByNode],
                             registration).tools
    /\ toolsByNode' = registerTool([tools |-> tools, toolsByNode |-> toolsByNode],
                                   registration).toolsByNode
    /\ registrations' = Append(registrations, registration)
    /\ UNCHANGED <<unitVars, invokeVars, streamVars, execInput, handlerCalls, toolCalls,
                   results, callIndex, pc, batches, log>>

\* executeToolCalls lines 138-152: the call and the extraction
Execute(messages) ==
    /\ pc = "idle"
    /\ Len(batches) < MaxBatches
    /\ execInput' = messages
    /\ toolCalls' = ExtractToolCalls(messages)
    /\ results' = <<>>
    /\ callIndex' = 1
    /\ pc' = "exec"
    /\ UNCHANGED <<unitVars, invokeVars, registryVars, streamVars, handlerCalls, batches,
                   log>>

\* executeToolCalls line 185: the results are returned to the caller
ExecDone ==
    /\ pc = "exec"
    /\ ForOfDone(callIndex, toolCalls)
    /\ batches' = Append(batches, results)
    /\ pc' = "idle"
    /\ UNCHANGED <<unitVars, invokeVars, registryVars, streamVars, execInput,
                   handlerCalls, toolCalls, results, callIndex, log>>

NextTools ==
    \/ \E registration \in Registrations : Register(registration)
    \/ \E messages \in ExecInputs : Execute(messages)
    \/ ExecNotFound
    \/ ExecStart
    \/ \E output \in HandlerReturns : HandlerResolve(output)
    \/ \E error \in HandlerThrows : HandlerThrow(error)
    \/ ExecDone

SpecTools == InitTools /\ [][NextTools]_vars


----------------------------------------------------------------------------
(* The frame decoder of stream.  The body of the response is newline-      *)
(* delimited JSON.  The transport delivers it in reads of any size; the    *)
(* decoder yields one frame per newline-terminated line, buffers a line    *)
(* that spans reads until its newline arrives, and discards, without       *)
(* parsing it, the fragment left unterminated at the end of the stream.    *)

\* the longest body
MaxBody == 6

NewLine == "\n"

\* the bytes of a body: a digit, a byte no JSON text consists of, and the
\* line terminator
Bytes == {"1", "x", NewLine}

Bodies == UNION {[1..n -> Bytes] : n \in 0..MaxBody}

\* the lines of the model that are JSON texts are the numbers
IsJSON(line) == line # <<>> /\ \A i \in 1..Len(line) : line[i] = "1"

\* JSON.parse of a line that is a JSON text: the number it denotes
RECURSIVE JSONParse(_)
JSONParse(line) ==
    IF line = <<>> THEN 0
    ELSE 10 * JSONParse(SubSeq(line, 1, Len(line) - 1)) + 1

ParseFailure == [class |-> "SyntaxError", message |-> "Unexpected token"]

HasNewLine(bytes) == \E i \in 1..Len(bytes) : bytes[i] = NewLine

FirstNewLine(bytes) ==
    CHOOSE i \in 1..Len(bytes) :
        bytes[i] = NewLine /\ \A j \in 1..(i - 1) : bytes[j] # NewLine

\* the decoder's work on the buffered bytes: every terminated line is
\* parsed and yielded in turn, the unterminated rest stays in the buffer; a
\* line that is not JSON stops the decoder
RECURSIVE DecodeLines(_, _)
DecodeLines(bytes, frames) ==
    IF ~HasNewLine(bytes)
    THEN [buffer |-> bytes, frames |-> frames, failed |-> FALSE]
    ELSE LET n == FirstNewLine(bytes)
             line == SubSeq(bytes, 1, n - 1)
             rest == SubSeq(bytes, n + 1, Len(bytes))
         IN  IF IsJSON(line)
             THEN DecodeLines(rest, Append(frames, JSONParse(line)))
             ELSE [buffer |-> rest, frames |-> frames, failed |-> TRUE]

\* faulty variant: the fragment left at the end of the stream is parsed
AtStreamEndParsesFragment(fragment, frames) ==
    IF fragment = <<>> THEN frames ELSE Append(frames, JSONParse(fragment))

\* the frames at the end of the stream: the fragment is discarded
AtStreamEnd(fragment, frames) == frames

\* neither invoke nor stream nor executeToolCalls runs
NoRun ==
    /\ recursion_limit_arg = 0
    /\ onPartialResult = FALSE
    /\ toolExecutor = FALSE
    /\ registrations = <<>>
    /\ tools = NewToolExecutor.tools
    /\ toolsByNode = NewToolExecutor.toolsByNode
    /\ NoStream
    /\ execInput = <<>>
    /\ handlerCalls = <<>>
    /\ thrown = <<>>
    /\ allMessages = <<>>
    /\ currentMessages = <<>>
    /\ iterations = 0
    /\ lastResponse = <<>>
    /\ hasToolCalls = FALSE
    /\ toolCalls = <<>>
    /\ results = <<>>
    /\ callIndex = 1
    /\ result = <<>>
    /\ requests = <<>>
    /\ responses = <<>>
    /\ batches = <<>>
    /\ partials = <<>>
    /\ log = <<>>

\* the variables of the runs, which the units on their own leave alone
runVars == <<recursion_limit_arg, onPartialResult, toolExecutor, registryVars,
             streamVars, execInput, handlerCalls, allMessages,
             currentMessages, iterations, lastResponse, hasToolCalls,
             toolCalls, results, callIndex, result, requests, responses,
             batches, partials, log, twoRunVars>>

InitDecoder ==
    /\ NoRun
    /\ NoSerializer
    /\ NoTwoRuns
    /\ body \in Bodies
    /\ unread = body
    /\ reads = <<>>
    /\ buffer = <<>>
    /\ decoded = <<>>
    /\ pc = "decoding"

\* a read delivers the next n bytes, and every line they terminate is a
\* JSON text
DecoderRead(n) ==
    /\ pc = "decoding"
    /\ n \in 1..Len(unread)
    /\ LET chunk == SubSeq(unread, 1, n)
           step == DecodeLines(buffer \o chunk, decoded)
       IN  /\ ~step.failed
           /\ reads' = Append(reads, chunk)
           /\ buffer' = step.buffer
           /\ decoded' = step.frames
    /\ unread' = SubSeq(unread, n + 1, Len(unread))
    /\ UNCHANGED <<runVars, serializerVars, body, thrown, pc>>

\* a read delivers the next n bytes, and a line they terminate is not JSON:
\* the frames of the lines before it are yielded, and the parse failure
\* propagates
DecoderReject(n) ==
    /\ pc = "decoding"
    /\ n \in 1..Len(unread)
    /\ LET chunk == SubSeq(unread, 1, n)
           step == DecodeLines(buffer \o chunk, decoded)
       IN  /\ step.failed
           /\ reads' = Append(reads, chunk)
           /\ buffer' = step.buffer
           /\ decoded' = step.frames
    /\ unread' = SubSeq(unread, n + 1, Len(unread))
    /\ thrown' = <<ParseFailure>>
    /\ pc' = "failed"
    /\ UNCHANGED <<runVars, serializerVars, body>>

\* the stream ends: what is left in the buffer is dropped
DecoderEnd ==
    /\ pc = "decoding"
    /\ unread = <<>>
    /\ decoded' = AtStreamEnd(buffer, decoded)
    /\ buffer' = <<>>
    /\ pc' = "decoded"
    /\ UNCHANGED <<runVars, serializerVars, body, unread, reads, thrown>>

NextDecoder ==
    \/ \E n \in 1..MaxBody : DecoderRead(n)
    \/ \E n \in 1..MaxBody : DecoderReject(n)
    \/ DecoderEnd

SpecDecoder == InitDecoder /\ [][NextDecoder]_vars

----------------------------------------------------------------------------
(* serializeMessage on its own: it is applied to one message.              *)

\* the largest number of content blocks of a message to serialize
MaxBlocks == 2

\* new TextBlock(text, annotations)
NewTextBlock(text, annotations) ==
    [type |-> "text", text |-> text, annotations |-> annotations]

\* new ReasoningBlock(summary, details)
ReasoningBlock(summary, details) ==
    [type |-> "reasoning", summary |-> summary, details |-> details]

\* content blocks with and without empty arrays and undefined values
BlocksToSerialize ==
    {TextBlock("Hello"),
     NewTextBlock("Hi", EmptyArray),
     NewTextBlock("Hi", [array |-> <<"ref">>]),
     ReasoningBlock("why", Undefined),
     ReasoningBlock("why", [array |-> <<"step">>]),
     ToolResultBlock(<<0, 1>>, [value |-> "tool executed"], "completed", FALSE),
     ToolResultBlock(<<0, 1>>, Undefined, "completed", FALSE),
     ToolResultBlock(<<0, 1>>, EmptyArray, "completed", FALSE),
     RemoteToolCallBlock(<<0, 1>>, "t1")}

ContentsToSerialize ==
    UNION {[1..n -> BlocksToSerialize] : n \in 0..MaxBlocks}

\* tools_calls?: undefined, an empty list or a list with a reference
ToolsCallsChoices ==
    {NoFields, Field("tools_calls", <<>>),
     Field("tools_calls", <<[id |-> <<0, 1>>]>>)}

\* the messages handed to serializeMessage
MessagesToSerialize ==
    {[message_id |-> message_id, role |-> role, content |-> content,
      metadata |-> metadata] @@ tools_calls :
        message_id \in {Null, <<0, 1>>},
        role \in {"user", "tool"},
        content \in ContentsToSerialize,
        metadata \in {{}, {"source"}},
        tools_calls \in ToolsCallsChoices}

InitSerializer ==
    /\ NoRun
    /\ NoDecoder
    /\ NoTwoRuns
    /\ toSerialize \in MessagesToSerialize
    /\ serialized = <<>>
    /\ pc = "serialize"

\* serializeMessage lines 299-321: the value is returned, the message is
\* not assigned to
Serialize ==
    /\ pc = "serialize"
    /\ serialized' = <<serializeMessage(toSerialize)>>
    /\ pc' = "serialized"
    /\ UNCHANGED <<runVars, decoderVars, thrown, toSerialize>>

NextSerializer == Serialize

SpecSerializer == InitSerializer /\ [][NextSerializer]_vars

----------------------------------------------------------------------------
(* The streaming turn controller (stream).  It has the control skeleton of *)
(* invoke, but the transport answers with a sequence of frames: each frame *)
(* is yielded to the caller as it arrives, the messages the frames carry   *)
(* are collected per pass, and tool-call detection runs when the frames of *)
(* the pass are exhausted.                                                 *)

MessageFrame(message, k) ==
    [event |-> "message", message |-> message, thread_id |-> "thread-123",
     run_id |-> <<"run", k>>]

UpdatesFrame(k) ==
    [event |-> "updates", state |-> <<"state", k>>, thread_id |-> "thread-123",
     run_id |-> <<"run", k>>]

\* a newline-terminated line of the body that is not a JSON text
BadLine == [line |-> <<"x">>]

IsMalformedLine(item) == Has(item, "line") /\ ~IsJSON(item.line)

StreamKinds == {"text", "call", "late_calls", "updates", "empty", "malformed"}

\* the lines of the body of transport call k, each a frame but for the
\* malformed line
StreamFrames(kind, k) ==
    CASE kind = "text" -> <<MessageFrame(AssistantText(k, 1), k), UpdatesFrame(k)>>
      [] kind = "call" ->
            <<MessageFrame(Message("assistant",
                                   <<RemoteToolCallBlock(<<k, 1>>, "t1")>>,
                                   <<k, 1>>), k),
              UpdatesFrame(k)>>
      [] kind = "late_calls" ->
            <<MessageFrame(AssistantText(k, 1), k),
              UpdatesFrame(k),
              MessageFrame(Message("assistant",
                                   <<TextBlock("thinking"),
                                     RemoteToolCallBlock(<<k, 1>>, "t2"),
                                     RemoteToolCallBlock(<<k, 2>>, "t1")>>,
                                   <<k, 2>>), k)>>
      [] kind = "updates" -> <<UpdatesFrame(k)>>
      [] kind = "malformed" ->
            <<MessageFrame(Message("assistant",
                                   <<RemoteToolCallBlock(<<k, 1>>, "t1")>>,
                                   <<k, 1>>), k),
              BadLine,
              MessageFrame(AssistantText(k, 2), k),
              UpdatesFrame(k)>>
      [] OTHER -> <<>>

\* a non-success outcome of the streaming transport raises a typed failure
StreamError(cause) ==
    CASE cause.kind = "http" ->
            [class |-> createErrorFromResponse(cause.status),
             message |-> "HTTP error! status: " \o Decimal(cause.status)]
      [] cause.kind = "timeout" ->
            [class |-> "TimeoutError", message |-> "Request timeout"]
      [] OTHER -> [class |-> "AgentFlowError", message |-> "fetch failed"]

\* faulty variant: the loop admits one pass too many
StreamLoopConditionOffByOne(i, limit) == i <= limit

\* the cap is checked at loop entry
StreamLoopCondition(i, limit) == i < limit

\* this pass's request: the same shape as the request of invoke
StreamRequest(messages, i, limit) ==
    [messages |-> messages, config |-> config, recursion_limit |-> limit,
     response_granularity |-> response_granularity]
    @@ (IF i = 1 THEN Field("initial_state", initial_state) ELSE NoFields)

\* tool-call presence across the messages collected in the pass
StreamHasToolCalls(messages) ==
    \E i \in 1..Len(messages) :
        \E j \in 1..Len(messages[i].content) :
            messages[i].content[j].type = "remote_tool_call"

\* faulty variant: detection does not wait for the end of the frames
FramesExhaustedEarly(frames) == TRUE

\* the frame sequence of the pass is exhausted
FramesExhausted(frames) == frames = <<>>

\* faulty variant: the malformed line is skipped and the stream goes on
OnMalformedLineSkip == "stream_frames"

\* a malformed line aborts the run
OnMalformedLine == "failed"

InitStream ==
    /\ recursion_limit_arg \in 1..MaxCap
    /\ onPartialResult = FALSE
    /\ toolExecutor \in BOOLEAN
    /\ registrations \in RegistryChoices
    /\ (~toolExecutor => registrations = <<>>)
    /\ tools = RegisterAll(NewToolExecutor, registrations).tools
    /\ toolsByNode = RegisterAll(NewToolExecutor, registrations).toolsByNode
    /\ NoStream
    /\ NoDecoder
    /\ NoSerializer
    /\ NoTwoRuns
    /\ execInput = <<>>
    /\ handlerCalls = <<>>
    /\ thrown = <<>>
    /\ allMessages = <<>>
    /\ currentMessages = InitialMessages
    /\ iterations = 0
    /\ lastResponse = <<>>
    /\ hasToolCalls = FALSE
    /\ toolCalls = <<>>
    /\ results = <<>>
    /\ callIndex = 1
    /\ result = <<>>
    /\ pc = "stream_loop"
    /\ requests = <<>>
    /\ responses = <<>>
    /\ batches = <<>>
    /\ partials = <<>>
    /\ log = <<>>

\* the variables of the caller's setup and of invoke that stream leaves alone
streamFixed == <<recursion_limit_arg, onPartialResult, toolExecutor,
                registryVars, allMessages, lastResponse, hasToolCalls,
                result, partials>>

\* step 1: the iteration is incremented, the request is built and the
\* transport is called
StreamLoopEnter ==
    /\ pc = "stream_loop"
    /\ StreamLoopCondition(iterations, recursion_limit)
    /\ iterations' = NextIteration(iterations)
    /\ requests' = Append(requests,
                          StreamRequest(currentMessages, iterations',
                                        recursion_limit))
    /\ log' = Append(log, Event("request", iterations', Null))
    /\ pc' = "stream_transport"
    /\ UNCHANGED <<unitVars, streamFixed, streamVars, execInput, handlerCalls, thrown,
                   currentMessages, toolCalls, results, callIndex, responses,
                   batches>>

\* step 8: the cap is reached at loop entry, the run stops
StreamLoopExit ==
    /\ pc = "stream_loop"
    /\ ~StreamLoopCondition(iterations, recursion_limit)
    /\ pc' = "stream_done"
    /\ log' = Append(log, Event("limit", iterations, Null))
    /\ UNCHANGED <<unitVars, streamFixed, streamVars, execInput, handlerCalls, thrown,
                   currentMessages, iterations, toolCalls, results, callIndex,
                   requests, responses, batches>>

\* step 2: the transport answers with a sequence of frames
StreamOpen(kind) ==
    /\ pc = "stream_transport"
    /\ incoming' = StreamFrames(kind, Len(requests))
    /\ responseMessages' = <<>>
    /\ responses' = Append(responses, StreamFrames(kind, Len(requests)))
    /\ log' = Append(log, Event("response", iterations, Null))
    /\ pc' = "stream_frames"
    /\ UNCHANGED <<unitVars, streamFixed, yielded, execInput, handlerCalls, thrown,
                   currentMessages, iterations, toolCalls, results, callIndex,
                   requests, batches>>

\* step 2: a non-success outcome aborts the whole run
StreamFail(cause) ==
    /\ pc = "stream_transport"
    /\ pc' = "failed"
    /\ thrown' = <<StreamError(cause)>>
    /\ log' = Append(log, Event("transport_error", iterations, Null))
    /\ UNCHANGED <<unitVars, streamFixed, streamVars, execInput, handlerCalls,
                   currentMessages, iterations, toolCalls, results, callIndex,
                   requests, responses, batches>>

\* a frame arrives: it is surfaced to the caller at once, and its message,
\* if it carries one, is added to the list of the pass
FrameArrive ==
    /\ pc = "stream_frames"
    /\ incoming # <<>>
    /\ ~IsMalformedLine(Head(incoming))
    /\ yielded' = Append(yielded, Head(incoming))
    /\ responseMessages' = IF Has(Head(incoming), "message")
                           THEN Append(responseMessages, Head(incoming).message)
                           ELSE responseMessages
    /\ incoming' = Tail(incoming)
    /\ log' = Append(log, Event("frame", iterations, <<iterations, Len(yielded')>>))
    /\ UNCHANGED <<unitVars, streamFixed, execInput, handlerCalls, thrown,
                   currentMessages, iterations, toolCalls, results, callIndex,
                   pc, requests, responses, batches>>

\* the next line of the body is not JSON: it is consumed, no frame comes of
\* it, and the parse failure propagates to the caller of stream
FrameMalformed ==
    /\ pc = "stream_frames"
    /\ incoming # <<>>
    /\ IsMalformedLine(Head(incoming))
    /\ incoming' = Tail(incoming)
    /\ pc' = OnMalformedLine
    /\ thrown' = IF pc' = "failed" THEN <<ParseFailure>> ELSE thrown
    /\ log' = Append(log, Event("parse_error", iterations, Null))
    /\ UNCHANGED <<unitVars, streamFixed, yielded, responseMessages, execInput,
                   handlerCalls, currentMessages, iterations, toolCalls,
                   results, callIndex, requests, responses, batches>>

\* steps 4 and 7: the frames are exhausted, tool-call requests are present
\* and a dispatcher is attached: executeToolCalls is called on the messages
\* of the pass
StreamDispatch ==
    /\ pc = "stream_frames"
    /\ FramesExhausted(incoming)
    /\ StreamHasToolCalls(responseMessages) /\ toolExecutor
    /\ execInput' = responseMessages
    /\ toolCalls' = ExtractToolCalls(execInput')
    /\ results' = <<>>
    /\ callIndex' = 1
    /\ log' = Append(log, Event("detect", iterations, Null))
    /\ pc' = "exec"
    /\ UNCHANGED <<unitVars, streamFixed, streamVars, handlerCalls, thrown,
                   currentMessages, iterations, requests, responses, batches>>

\* steps 4 and 6: the frames are exhausted, and there is no tool-call
\* request or no dispatcher: the run stops
StreamBreak ==
    /\ pc = "stream_frames"
    /\ FramesExhausted(incoming)
    /\ ~(StreamHasToolCalls(responseMessages) /\ toolExecutor)
    /\ log' = Append(log, Event("break", iterations, Null))
    /\ pc' = "stream_done"
    /\ UNCHANGED <<unitVars, streamFixed, streamVars, execInput, handlerCalls, thrown,
                   currentMessages, iterations, toolCalls, results, callIndex,
                   requests, responses, batches>>

\* step 7: the results are serialized and set as pending input
StreamExecReturn ==
    /\ pc = "exec"
    /\ ForOfDone(callIndex, toolCalls)
    /\ currentMessages' = SerializeAll(results)
    /\ batches' = Append(batches, results)
    /\ pc' = "stream_loop"
    /\ UNCHANGED <<unitVars, streamFixed, streamVars, execInput, handlerCalls, thrown,
                   iterations, toolCalls, results, callIndex, requests,
                   responses, log>>

NextStream ==
    \/ StreamLoopEnter
    \/ StreamLoopExit
    \/ \E kind \in StreamKinds : StreamOpen(kind)
    \/ \E cause \in FailureCauses : StreamFail(cause)
    \/ FrameArrive
    \/ FrameMalformed
    \/ StreamDispatch
    \/ StreamBreak
    \/ ExecNotFound
    \/ ExecStart
    \/ \E output \in HandlerReturns : HandlerResolve(output)
    \/ \E error \in HandlerThrows : HandlerThrow(error)
    \/ StreamExecReturn

SpecStream == InitStream /\ [][NextStream]_vars

----------------------------------------------------------------------------
(* Properties of a run of invoke *)

\* a response carries a tool-call request in one of its messages
ContainsToolCallRequest(response) ==
    /\ Has(response.data, "messages")
    /\ \E i \in 1..Len(response.data.messages) :
          \E j \in 1..Len(response.data.messages[i].content) :
              response.data.messages[i].content[j].type = "remote_tool_call"

EveryResponseAsksForATool ==
    \A k \in 1..Len(responses) : ContainsToolCallRequest(responses[k])

Returned == pc = "returned"

\* the messages of response k, none when the response has no messages
MessagesOf(k) ==
    IF Has(responses[k].data, "messages") THEN responses[k].data.messages
    ELSE <<>>

\* the positions of the log that hold an event of kind ev for pass k
Positions(ev, k) == {a \in 1..Len(log) : log[a].ev = ev /\ log[a].k = k}

\* C1: for a cap N >= 1, a run with a dispatcher attached in which every
\* response carries a tool-call request makes exactly N transport calls and
\* returns iterations = N and recursion_limit_reached = TRUE; no run ever
\* issues an (N+1)th transport call.
C1_CapBoundsTransportCalls ==
    /\ Len(requests) <= recursion_limit
    /\ (Returned /\ toolExecutor /\ EveryResponseAsksForATool) =>
          /\ Len(requests) = recursion_limit
          /\ result[1].iterations = recursion_limit
          /\ result[1].recursion_limit_reached

C1_Witness ==
    /\ Returned /\ toolExecutor /\ EveryResponseAsksForATool
    /\ recursion_limit = 3
    /\ Len(requests) = 3

\* the run of scenario B: a first response with one tool-call request for a
\* registered tool, a second response that is plain text
ScenarioB ==
    /\ Returned /\ toolExecutor /\ MapHas(tools, "t1")
    /\ Len(responses) = 2
    /\ responses[1] = ServerResponse("call_t1", 1)
    /\ responses[2] = ServerResponse("text", 2)

\* C2: in scenario B exactly 2 transport calls are made, iterations = 2, and
\* the returned full history is, in this order, the caller's initial user
\* message, the assistant tool-call message, the tool-result message and the
\* final assistant message.
C2_HistoryStartsWithInitialMessage ==
    ScenarioB =>
        /\ Len(requests) = 2
        /\ result[1].iterations = 2
        /\ Len(result[1].all_messages) = 4
        /\ result[1].all_messages[1] = InitialMessages[1]
        /\ result[1].all_messages[2] = responses[1].data.messages[1]
        /\ result[1].all_messages[3].role = "tool"
        /\ result[1].all_messages[3].content[1].call_id = <<1, 1>>
        /\ result[1].all_messages[4] = responses[2].data.messages[1]

\* C3: in every state of a run with cap >= 1 the iteration counter equals
\* the number of transport calls issued so far, it was advanced by exactly 1
\* in each pass (pass k was entered with the counter at k), and it never
\* exceeds the cap.
C3_IterationCounter ==
    /\ iterations = Len(requests)
    /\ iterations <= recursion_limit
    /\ \A k \in 1..Len(requests) : Positions("request", k) # {}
    /\ \A a \in 1..Len(log) :
          log[a].ev = "request" =>
              log[a].k = Cardinality({b \in 1..a : log[b].ev = "request"})

C3_Witness == iterations = 3 /\ pc = "transport"

\* C4: a run that stops because a response carried no tool-call request
\* (DONE) returns recursion_limit_reached = FALSE; recursion_limit_reached =
\* TRUE is returned only by a run that stopped because the cap was hit.  A
\* single-turn run with a plain-text reply makes 1 transport call and returns
\* iterations = 1 and recursion_limit_reached = FALSE.
C4_LimitFlagOnlyWhenCapStoppedTheRun ==
    Returned =>
        /\ ~ContainsToolCallRequest(responses[Len(responses)])
              => ~result[1].recursion_limit_reached
        /\ result[1].recursion_limit_reached => log[Len(log)].ev = "limit"
        /\ (Len(responses) = 1 /\ responses[1] = ServerResponse("text", 1)) =>
              /\ Len(requests) = 1
              /\ result[1].iterations = 1
              /\ ~result[1].recursion_limit_reached

\* the history after pass k: for each pass in turn, the messages of its
\* response followed by the results of its tool calls
RECURSIVE HistoryUpTo(_)
HistoryUpTo(k) ==
    IF k = 0 THEN <<>>
    ELSE HistoryUpTo(k - 1) \o MessagesOf(k)
            \o (IF k <= Len(batches) THEN batches[k] ELSE <<>>)

IsPrefix(s, t) == Len(s) <= Len(t) /\ SubSeq(t, 1, Len(s)) = s

\* C5: the full history is append-only and in arrival order: for each pass
\* k the messages of its response come first, then the result messages of
\* its tool calls, everything of pass k precedes everything of pass k+1, and
\* no earlier entry is ever removed or reordered.
C5_HistoryAppendOnlyInArrivalOrder ==
    /\ [](/\ allMessages = HistoryUpTo(Len(responses))
          /\ \A k \in 1..Len(batches) : \A j \in 1..Len(batches[k]) :
                /\ batches[k][j].role = "tool"
                /\ batches[k][j].content[1].call_id[1] = k
          /\ Returned => result[1].all_messages = allMessages)
    /\ [][IsPrefix(allMessages, allMessages')]_vars

C5_Witness ==
    /\ Returned
    /\ Len(responses) = 3
    /\ Len(batches) >= 2
    /\ Len(batches[1]) = 2
    /\ Len(allMessages) >= 6

C7_FinalIffLastIteration ==
    /\ (Returned /\ partials # <<>>) => partials[Len(partials)].is_final
    /\ \A n \in 1..Len(partials) :
          partials[n].is_final => Len(requests) = n

\* C8: with an observer supplied, invoke calls it exactly once per pass,
\* after the transport call of that pass returned, with iteration fields
\* 1, 2, ..., n in increasing order, n being the iteration count of the
\* returned result; in a run ended by a reply without tool-call request only
\* the last call has is_final = TRUE.
C8_ObserverOncePerIterationInOrder ==
    /\ ~onPartialResult => partials = <<>>
    /\ onPartialResult =>
          /\ Len(partials) = Len(responses)
          /\ \A n \in 1..Len(partials) : partials[n].iteration = n
          /\ \A k \in 1..Len(responses) :
                /\ Cardinality(Positions("emit", k)) = 1
                /\ \A a \in Positions("emit", k) :
                      \E b \in Positions("response", k) : b < a
          /\ Returned => Len(partials) = result[1].iterations
          /\ (Returned /\ ~ContainsToolCallRequest(responses[Len(responses)])) =>
                \A n \in 1..Len(partials) :
                    partials[n].is_final <=> n = Len(partials)

C8_Witness ==
    /\ Returned
    /\ Len(partials) = 2
    /\ partials[1].iteration = 1 /\ ~partials[1].is_final
    /\ partials[2].iteration = 2 /\ partials[2].is_final

\* C9: the observer call of pass k gates progress: no tool handler of pass
\* k is called and transport call k+1 is not issued until the observer call
\* of pass k has settled, also when the observer suspends.
C9_ObserverGatesProgress ==
    /\ pc = "observer" =>
          /\ Len(requests) = iterations
          /\ Positions("handler", iterations) = {}
          /\ Positions("settled", iterations) = {}
    /\ \A a \in 1..Len(log) :
          log[a].ev = "emit" =>
              \A b \in (a + 1)..Len(log) :
                  (\/ log[b].ev = "handler" /\ log[b].k = log[a].k
                   \/ log[b].ev = "request" /\ log[b].k = log[a].k + 1)
                  => \E c \in (a + 1)..(b - 1) :
                        log[c].ev = "settled" /\ log[c].k = log[a].k

C9_Witness ==
    /\ Positions("emit", 1) # {}
    /\ Positions("settled", 1) # {}
    /\ Positions("handler", 1) # {}
    /\ Positions("request", 2) # {}

\* C10: every PartialResult delivered in pass k carries the iteration index,
\* the messages of that turn and the full history accumulated so far (the
\* response messages of passes 1..k and the tool-result messages of passes
\* 1..k-1).
C10_PartialCarriesFullHistory ==
    \A n \in 1..Len(partials) :
        /\ partials[n].iteration = n
        /\ Has(responses[n].data, "messages") =>
              partials[n].messages = responses[n].data.messages
        /\ Has(partials[n], "all_messages")
        /\ partials[n].all_messages = HistoryUpTo(n - 1) \o MessagesOf(n)

----------------------------------------------------------------------------
(* Failures of the transport *)

\* the positions of the log that hold an event of kind ev
PositionsOf(ev) == {a \in 1..Len(log) : log[a].ev = ev}

\* C11: if the transport call of pass k fails, invoke rejects with an error
\* and returns no result; nothing happens after the failure (no transport
\* call, no handler call, no observer call), exactly k transport calls and,
\* with an observer supplied, k-1 observer calls were made, and what the
\* handlers of passes 1..k-1 did stays as it was.
C11_TransportFailureAbortsRun ==
    /\ [](\A a \in PositionsOf("transport_error") :
            /\ a = Len(log)
            /\ pc = "failed"
            /\ thrown # <<>>
            /\ result = <<>>
            /\ Len(requests) = log[a].k
            /\ Cardinality(PositionsOf("request")) = log[a].k
            /\ Len(responses) = log[a].k - 1
            /\ Cardinality(PositionsOf("emit")) =
                   IF onPartialResult THEN log[a].k - 1 ELSE 0
            /\ Len(partials) = Cardinality(PositionsOf("emit"))
            /\ Len(batches) = log[a].k - 1
            /\ Len(handlerCalls) = Cardinality(PositionsOf("handler")))
    /\ [][/\ pc # "failed"
          /\ pc' = "failed" =>
                /\ handlerCalls' = handlerCalls
                /\ batches' = batches
                /\ allMessages' = allMessages
                /\ requests' = requests
                /\ partials' = partials]_vars

C11_Witness ==
    /\ PositionsOf("transport_error") # {}
    /\ Len(requests) = 2
    /\ onPartialResult /\ Len(partials) = 1
    /\ Len(handlerCalls) = 2
    /\ Len(batches) = 1

\* the message of the Error thrown for a response with status s that is not ok
HttpErrorMessage(s) == "HTTP error! status: " \o Decimal(s)

\* C12: when the transport returns a response that is not ok, invoke rejects
\* with the typed error of the error factory (400 BadRequestError, 401
\* AuthenticationError, 404 NotFoundError, 422 ValidationError, 5xx
\* ServerError), not with a plain Error.
C12_HttpFailureIsTyped ==
    \A s \in HttpErrorStatuses :
        (thrown # <<>> /\ thrown[1].message = HttpErrorMessage(s)) =>
            /\ thrown[1].class = createErrorFromResponse(s)
            /\ thrown[1].class # "Error"

----------------------------------------------------------------------------
(* Properties of executeToolCalls *)

\* where the tool-call requests are in a list of messages: <<i, j>> is block
\* j of message i
RequestPositions(messages) ==
    UNION {{<<i, j>> : j \in {b \in 1..Len(messages[i].content) :
                                messages[i].content[b].type = "remote_tool_call"}} :
           i \in 1..Len(messages)}

\* scan order: message order, then block order within a message
ScannedBefore(p, q) == p[1] < q[1] \/ (p[1] = q[1] /\ p[2] < q[2])

\* the k-th tool-call request of the messages in scan order
RequestInScanOrder(messages, k) ==
    LET p == CHOOSE q \in RequestPositions(messages) :
                 Cardinality({r \in RequestPositions(messages) :
                                 ScannedBefore(r, q)}) = k - 1
    IN messages[p[1]].content[p[2]]

\* executeToolCalls has returned the results of the messages in execInput
BatchReturned == pc = "idle" /\ batches # <<>>

ResultBlock(message) == message.content[1]

\* C13: executeToolCalls returns exactly one result message per tool-call
\* request found in the messages it is given, and the k-th result answers
\* the k-th request in scan order (message order, then block order), for
\* any mix of successes, handler failures and unknown tools.
C13_OneResultPerRequestInScanOrder ==
    /\ Len(results) <= Cardinality(RequestPositions(execInput))
    /\ \A k \in 1..Len(results) :
          ResultBlock(results[k]).call_id = RequestInScanOrder(execInput, k).id
    /\ BatchReturned =>
          /\ batches[Len(batches)] = results
          /\ Len(results) = Cardinality(RequestPositions(execInput))

C13_Witness ==
    /\ BatchReturned
    /\ Len(execInput) = 3
    /\ Len(results) = 3
    /\ ResultBlock(results[1]).status = "completed"
    /\ ResultBlock(results[2]).output = [error |-> NotFoundMessage("t2")]
    /\ ResultBlock(results[3]).output = [error |-> "boom"]

----------------------------------------------------------------------------
(* Tool failures inside a run of invoke *)

\* the result messages of the executeToolCalls call of pass k, as far as
\* they exist
ResultsOfPass(k) == IF k <= Len(batches) THEN batches[k] ELSE results

\* the tool-call requests of pass k in the order of the batch
RequestsOfPass(k) ==
    [n \in 1..Cardinality(RequestPositions(MessagesOf(k))) |->
        RequestInScanOrder(MessagesOf(k), n)]

\* the messages a handler's thrown values turn into
ThrownMessages(handler) ==
    IF handler = "h1" THEN {"boom"} ELSE {"String error"}

\* the handler called for request id of pass k
HandlerOf(k, id) ==
    LET c == CHOOSE c \in 1..Len(handlerCalls) :
                 handlerCalls[c].batch = k /\ handlerCalls[c].id = id
    IN handlerCalls[c].handler

IsFailedResultFor(block, id) ==
    /\ block.type = "tool_result"
    /\ block.call_id = id
    /\ block.status = "failed"
    /\ block.is_error = TRUE

AnswersTo(k, id) ==
    {n \in 1..Len(ResultsOfPass(k)) :
        ResultBlock(ResultsOfPass(k)[n]).call_id = id}

\* the text contains the name between a prefix and a suffix
ContainsName(text, name) ==
    \E before \in {"", "Tool '"}, after \in {"", "' not found"} :
        text = before \o name \o after

IsResultMessage(message) ==
    /\ message.role = "tool"
    /\ Len(message.content) = 1
    /\ message.content[1].type = "tool_result"
    /\ Has(message.content[1], "call_id")

\* C16: every result message of executeToolCalls, for a completed, a failed
\* or a not-found call, has the tool role and exactly one content block, a
\* tool-result block whose call_id is the id of the originating tool-call
\* request, unchanged.
C16_ResultMessageShape ==
    /\ \A b \in 1..Len(batches) :
          \A n \in 1..Len(batches[b]) : IsResultMessage(batches[b][n])
    /\ \A n \in 1..Len(results) :
          /\ IsResultMessage(results[n])
          /\ results[n].content[1].call_id = toolCalls[n].id
          /\ \E p \in RequestPositions(execInput) :
                /\ execInput[p[1]].content[p[2]] = toolCalls[n]
                /\ execInput[p[1]].content[p[2]].id = results[n].content[1].call_id

\* one batch with a not-found, a completed and a thrown call
C16_Witness ==
    /\ BatchReturned
    /\ Len(batches[1]) = 3
    /\ batches[1][1].content[1].output = [error |-> "Tool 't1' not found"]
    /\ batches[1][2].content[1].status = "completed"
    /\ batches[1][3].content[1].output = [error |-> "String error"]

----------------------------------------------------------------------------
(* Properties of the registry *)

RegisteredNames == {registrations[i].name : i \in 1..Len(registrations)}

\* the last of the first n registrations that names the tool
LatestRegistration(name, n) ==
    registrations[CHOOSE i \in 1..n :
                      /\ registrations[i].name = name
                      /\ \A j \in (i + 1)..n : registrations[j].name # name]

\* C17: after any sequence of registerTool calls, all_tools has exactly one
\* descriptor per distinct registered name, and a tool-call request for a
\* name goes to the handler of the most recent registration of that name
\* (last write wins, no duplicate).
C17_LastRegistrationWins ==
    /\ Len(all_tools(tools)) = Cardinality(RegisteredNames)
    /\ {all_tools(tools)[i].function.name : i \in 1..Len(all_tools(tools))}
          = RegisteredNames
    /\ \A i \in 1..Len(all_tools(tools)) :
          LET descriptor == all_tools(tools)[i].function
              latest == LatestRegistration(descriptor.name, Len(registrations))
          IN /\ Has(latest, "description") =>
                   descriptor.description = latest.description
             /\ ~Has(latest, "description") =>
                   descriptor.description = "Execute " \o latest.name
    /\ \A c \in 1..Len(handlerCalls) :
          /\ handlerCalls[c].name \in
                {registrations[i].name : i \in 1..handlerCalls[c].registered}
          /\ handlerCalls[c].handler =
                LatestRegistration(handlerCalls[c].name,
                                   handlerCalls[c].registered).handler

\* t1 is registered with h1 and called, then registered again with h2 while
\* the first call is suspended, and called again in the same batch
C17_Witness ==
    /\ Len(registrations) = 2
    /\ registrations[1].name = "t1" /\ registrations[2].name = "t1"
    /\ Len(all_tools(tools)) = 1
    /\ Len(handlerCalls) = 2
    /\ handlerCalls[1].name = "t1" /\ handlerCalls[1].handler = "h1"
    /\ handlerCalls[2].name = "t1" /\ handlerCalls[2].handler = "h2"

\* the number of the executeToolCalls call in progress, or of the last one
\* when none is in progress
CurrentBatch == IF pc = "idle" THEN Len(batches) ELSE Len(batches) + 1

\* no block of the messages is a tool-call request
NoToolCallRequest(messages) ==
    \A i \in 1..Len(messages) :
        \A j \in 1..Len(messages[i].content) :
            messages[i].content[j].type # "remote_tool_call"

\* C18: executeToolCalls on messages without any tool-call request returns
\* an empty list of results and calls no handler, whatever the registry
\* holds.
C18_NoRequestNoResult ==
    (CurrentBatch >= 1 /\ NoToolCallRequest(execInput)) =>
        /\ toolCalls = <<>>
        /\ results = <<>>
        /\ pc # "handler"
        /\ \A c \in 1..Len(handlerCalls) : handlerCalls[c].batch # CurrentBatch
        /\ BatchReturned => batches[Len(batches)] = <<>>

\* two tools are registered and the messages hold a text block and a
\* tool_call block that is not a remote one
C18_Witness ==
    /\ BatchReturned
    /\ Len(tools) = 2
    /\ Len(execInput) = 1
    /\ Len(execInput[1].content) = 2
    /\ execInput[1].content[2].type = "tool_call"
    /\ batches[Len(batches)] = <<>>

----------------------------------------------------------------------------
(* Properties of a run of stream *)

StreamDone == pc = "stream_done"

\* a frame carries a message with a tool-call request
FrameAsksForATool(frame) ==
    /\ Has(frame, "message")
    /\ \E j \in 1..Len(frame.message.content) :
          frame.message.content[j].type = "remote_tool_call"

\* the frames of transport call k hold a tool-call request
PassAsksForATool(k) ==
    \E n \in 1..Len(responses[k]) : FrameAsksForATool(responses[k][n])

\* C19: for a cap N >= 1, a run of stream with a dispatcher in which the
\* frames of every pass hold a tool-call request makes exactly N transport
\* calls and stops, with no (N+1)th call; a run whose first pass has a
\* tool-call request and whose second pass has none makes exactly 2
\* transport calls.
C19_StreamCapBoundsTransportCalls ==
    /\ Len(requests) <= recursion_limit
    /\ Cardinality(PositionsOf("request")) = Len(requests)
    /\ (/\ StreamDone /\ toolExecutor
        /\ \A k \in 1..Len(responses) : PassAsksForATool(k)) =>
          /\ Len(requests) = recursion_limit
          /\ iterations = recursion_limit
    /\ (/\ StreamDone /\ toolExecutor
        /\ Len(responses) >= 2
        /\ PassAsksForATool(1) /\ ~PassAsksForATool(2)) =>
          Len(requests) = 2

C19_Witness ==
    /\ StreamDone /\ toolExecutor
    /\ \A k \in 1..Len(responses) : PassAsksForATool(k)
    /\ recursion_limit = 3
    /\ Len(requests) = 3
    /\ Len(handlerCalls) >= 3

\* the frames of a body: its lines up to the first malformed line, where the
\* decoder stops
DecodableFrames(lines) ==
    SubSeq(lines, 1,
           Cardinality({n \in 1..Len(lines) :
                          \A j \in 1..n : ~IsMalformedLine(lines[j])}))

RECURSIVE ConcatFrames(_)
\* the frames of all transport calls so far, in the order of arrival
ConcatFrames(streams) ==
    IF streams = <<>> THEN <<>>
    ELSE DecodableFrames(Head(streams)) \o ConcatFrames(Tail(streams))

\* the frame events of pass k that are in the log before position b
FramesSurfacedBefore(k, b) ==
    {a \in 1..(b - 1) : log[a].ev = "frame" /\ log[a].k = k}

\* C20: in stream every frame of every pass is surfaced to the caller
\* exactly once, in arrival order within the pass and with the passes in
\* order; all frames of pass k are surfaced before tool-call detection of
\* pass k runs, hence before any handler of pass k is called and before
\* transport call k+1 is issued.
C20_FramesSurfacedBeforeDetection ==
    /\ IsPrefix(yielded, ConcatFrames(responses))
    /\ pc # "failed" =>
          yielded \o DecodableFrames(incoming) = ConcatFrames(responses)
    /\ pc # "stream_frames" => yielded = ConcatFrames(responses)
    /\ Cardinality(PositionsOf("frame")) = Len(yielded)
    /\ \A b \in 1..Len(log) :
          /\ log[b].ev \in {"detect", "break", "handler", "not_found"} =>
                Cardinality(FramesSurfacedBefore(log[b].k, b))
                    = Len(DecodableFrames(responses[log[b].k]))
          /\ (log[b].ev = "request" /\ log[b].k > 1) =>
                Cardinality(FramesSurfacedBefore(log[b].k - 1, b))
                    = Len(DecodableFrames(responses[log[b].k - 1]))
          /\ log[b].ev = "frame" =>
                /\ log[b].id[2] = Cardinality({a \in 1..b : log[a].ev = "frame"})
                /\ yielded[log[b].id[2]] =
                      responses[log[b].k][
                          Cardinality(FramesSurfacedBefore(log[b].k, b)) + 1]
                /\ \A a \in 1..(b - 1) :
                      log[a].ev = "frame" =>
                          /\ log[a].k <= log[b].k
                          /\ log[a].id[2] < log[b].id[2]

\* pass 1 surfaces three frames, the last one with two tool-call requests,
\* the handlers run, and pass 2 surfaces two frames
C20_Witness ==
    /\ StreamDone
    /\ Len(responses) = 2
    /\ Len(responses[1]) = 3 /\ Len(responses[2]) = 2
    /\ Len(yielded) = 5
    /\ Len(handlerCalls) = 2

----------------------------------------------------------------------------
(* C21 *)

\* the positions of the line terminators of a byte sequence
Terminators(bytes) == {i \in 1..Len(bytes) : bytes[i] = NewLine}

\* the k-th newline-terminated line of a byte sequence
TerminatedLine(bytes, k) ==
    LET end == CHOOSE i \in Terminators(bytes) :
                   Cardinality({j \in Terminators(bytes) : j <= i}) = k
        start == IF k = 1 THEN 1
                 ELSE 1 + CHOOSE i \in Terminators(bytes) :
                          Cardinality({j \in Terminators(bytes) : j <= i}) = k - 1
    IN  SubSeq(bytes, start, end - 1)

\* a body is NDJSON when each of its newline-terminated lines is a JSON text
IsNDJSON(bytes) ==
    \A k \in 1..Cardinality(Terminators(bytes)) : IsJSON(TerminatedLine(bytes, k))

\* the value of a line that consists of n digits 1
Repunit(n) == (10 ^ n - 1) \div 9

\* one frame per newline-terminated line, in the order of the lines
FramesOfLines(bytes) ==
    [k \in 1..Cardinality(Terminators(bytes)) |->
        Repunit(Len(TerminatedLine(bytes, k)))]

\* the bytes after the last line terminator
Fragment(bytes) ==
    LET last == IF Terminators(bytes) = {} THEN 0
                ELSE CHOOSE i \in Terminators(bytes) :
                         \A j \in Terminators(bytes) : j <= i
    IN  SubSeq(bytes, last + 1, Len(bytes))

\* the bytes the reads have delivered so far
Delivered == SubSeq(body, 1, Len(body) - Len(unread))

RECURSIVE Concat(_)
Concat(chunks) ==
    IF chunks = <<>> THEN <<>> ELSE Head(chunks) \o Concat(Tail(chunks))

\* C21: the decoder's output does not depend on how the body is split into
\* reads.  Whatever the chunks of an NDJSON body are, the decoder does not
\* fail, the frames it has yielded are those of the newline-terminated lines
\* of the bytes delivered so far, one per line and in the order of the lines,
\* a line not yet terminated waits in the buffer, and at the end of the
\* stream the frames are those of the terminated lines of the whole body:
\* the trailing fragment is dropped and is never parsed.
C21_DecoderIndependentOfChunking ==
    (pc \in {"decoding", "decoded", "failed"} /\ IsNDJSON(body)) =>
        /\ pc # "failed"
        /\ Concat(reads) = Delivered
        /\ decoded = FramesOfLines(Delivered)
        /\ (pc = "decoding" => buffer = Fragment(Delivered))
        /\ (pc = "decoded" =>
                /\ Delivered = body
                /\ buffer = <<>>
                /\ Len(decoded) = Cardinality(Terminators(body)))

\* Scenario D: a body of two lines came in three uneven chunks, each of the
\* two cuts fell between two digits of a line, and two frames were decoded
C21_Witness ==
    /\ pc = "decoded"
    /\ IsNDJSON(body)
    /\ Cardinality(Terminators(body)) = 2
    /\ Fragment(body) = <<>>
    /\ Len(reads) = 3
    /\ \A i \in 1..2 : reads[i][Len(reads[i])] # NewLine
    /\ \A i \in 2..3 : reads[i][1] # NewLine
    /\ HasNewLine(reads[2])
    /\ Cardinality({Len(reads[i]) : i \in 1..3}) > 1
    /\ Len(decoded) = 2

----------------------------------------------------------------------------
(* C22 *)

\* the body of transport call k has a line that is not JSON
HasMalformedLine(k) ==
    \E n \in 1..Len(responses[k]) : IsMalformedLine(responses[k][n])

\* the position of the first line of the body of call k that is not JSON
FirstMalformedLine(k) ==
    CHOOSE n \in 1..Len(responses[k]) :
        /\ IsMalformedLine(responses[k][n])
        /\ \A j \in 1..(n - 1) : ~IsMalformedLine(responses[k][j])

\* the frame events of pass k in the log
FrameEvents(k) == {a \in 1..Len(log) : log[a].ev = "frame" /\ log[a].k = k}

\* C22: in stream a newline-terminated line that is not valid JSON aborts
\* the run with a parse failure.  Once the frames before the line are
\* surfaced, the only thing that happens is the failure: the frames before
\* the line stay delivered, in order, no frame after the line is surfaced,
\* tool-call detection does not run and no handler is called for the pass,
\* even if a frame before the line holds a tool-call request, and no further
\* transport call is issued.
C22_MalformedLineAbortsStream ==
    \A k \in 1..Len(responses) :
        HasMalformedLine(k) =>
            /\ k = Len(requests) /\ k = iterations
            /\ pc \in {"stream_frames", "failed"}
            /\ Cardinality(FrameEvents(k)) <= FirstMalformedLine(k) - 1
            /\ \A n \in 1..Cardinality(FrameEvents(k)) :
                  yielded[Len(yielded) - Cardinality(FrameEvents(k)) + n]
                      = responses[k][n]
            /\ \A b \in 1..Len(log) :
                  log[b].k = k =>
                      log[b].ev \in {"request", "response", "frame", "parse_error"}
            /\ \A c \in 1..Len(handlerCalls) : handlerCalls[c].batch < k
            /\ Len(batches) < k
            /\ (Cardinality(FrameEvents(k)) = FirstMalformedLine(k) - 1 /\
                Len(incoming) < Len(responses[k]) - Cardinality(FrameEvents(k))) =>
                  /\ pc = "failed"
                  /\ thrown = <<ParseFailure>>
                  /\ log[Len(log)] = Event("parse_error", k, Null)
                  /\ Cardinality(PositionsOf("parse_error")) = 1

\* pass 1 ran a handler; in pass 2 a frame with a request for a registered
\* tool was surfaced, then the malformed line failed the run while two more
\* frames were in the body
C22_Witness ==
    /\ pc = "failed"
    /\ thrown = <<ParseFailure>>
    /\ toolExecutor
    /\ Len(requests) = 2
    /\ HasMalformedLine(2)
    /\ Len(handlerCalls) = 1
    /\ FrameAsksForATool(yielded[Len(yielded)])
    /\ MapHas(tools, "t1")
    /\ Len(incoming) = 2

----------------------------------------------------------------------------
(* C23 *)

\* the value serializeMessage returned
Wire == serialized[1]

IsSingleTextBlock(content) == Len(content) = 1 /\ content[1].type = "text"

\* the fields of a block that hold an empty array or undefined
TrivialFields(block) ==
    {f \in DOMAIN block \cap {"output", "annotations", "details"} :
        \/ Has(block[f], "undefined")
        \/ (Has(block[f], "array") /\ Len(block[f].array) = 0)}

\* C23: serializing a message whose content is exactly one plain-text block
\* yields a bare text value equal to the text of the block; any other
\* content serializes to a list of block objects in the original block
\* order, each block with all of its fields and their values except the
\* fields that hold an empty array or undefined; the message itself is not
\* modified by the serialization.
C23_SerializedContent ==
    /\ [](pc = "serialized" =>
           IF IsSingleTextBlock(toSerialize.content)
           THEN Wire.content = toSerialize.content[1].text
           ELSE /\ Len(Wire.content) = Len(toSerialize.content)
                /\ \A i \in 1..Len(toSerialize.content) :
                      /\ DOMAIN Wire.content[i] =
                            DOMAIN toSerialize.content[i]
                                \ TrivialFields(toSerialize.content[i])
                      /\ \A f \in DOMAIN Wire.content[i] :
                            Wire.content[i][f] = toSerialize.content[i][f])
    /\ [][pc = "serialize" => toSerialize' = toSerialize]_vars

\* a text block followed by a block with an undefined field was serialized
\* to a list of two blocks
C23_Witness ==
    /\ pc = "serialized"
    /\ Len(toSerialize.content) = 2
    /\ toSerialize.content[1].type = "text"
    /\ TrivialFields(toSerialize.content[1]) = {"annotations"}
    /\ TrivialFields(toSerialize.content[2]) = {"details"}
    /\ Len(Wire.content) = 2

----------------------------------------------------------------------------
(* C30 *)

\* C30: the serialized form of a message has the tools_calls field only when
\* the message has a tools_calls list that is not empty, and the metadata
\* field only when the metadata of the message has an entry: a message whose
\* tools_calls is absent or an empty list, or whose metadata is an empty
\* object, serializes without that field.
C30_OptionalFieldsOnlyWhenNonTrivial ==
    pc = "serialized" =>
        /\ Has(Wire, "tools_calls") <=>
              (Has(toSerialize, "tools_calls") /\ Len(toSerialize.tools_calls) > 0)
        /\ Has(Wire, "metadata") <=> toSerialize.metadata # {}
        /\ Has(Wire, "tools_calls") => Wire.tools_calls = toSerialize.tools_calls
        /\ Has(Wire, "metadata") => Wire.metadata = toSerialize.metadata

----------------------------------------------------------------------------
(* C24 *)

\* the events of pass k in the log before position b
EventsBefore(evs, k, b) ==
    {a \in 1..(b - 1) : log[a].ev \in evs /\ log[a].k = k}

\* the transport calls issued and not yet answered or failed
InFlight ==
    Len(requests) - Len(responses) - Cardinality(PositionsOf("transport_error"))

\* the wire form of a tool-result message: the role, the sentinel id and the
\* result block
IsWireFormOf(wire, resultMessage) ==
    /\ wire.role = "tool"
    /\ wire.message_id = <<0>>
    /\ Len(wire.content) = 1
    /\ wire.content[1].type = "tool_result"
    /\ wire.content[1].call_id = resultMessage.content[1].call_id
    /\ wire.content[1].status = resultMessage.content[1].status

\* C24: the iterations of invoke run strictly one after the other.  When
\* transport call k+1 is issued the response of call k has arrived, every
\* tool-call request of pass k has been handled and every handler called in
\* pass k has settled, and the results of pass k are at the end of the
\* history and, serialized, are the pending input; at most one transport
\* call of a run is in flight at any time, and a run waits for it.
C24_IterationsAreSequential ==
    /\ [](/\ InFlight \in {0, 1}
          /\ InFlight = 1 <=> pc = "transport"
          /\ \A b \in PositionsOf("request") :
                log[b].k > 1 =>
                    LET k == log[b].k - 1
                    IN  /\ EventsBefore({"response"}, k, b) # {}
                        /\ Cardinality(EventsBefore({"handler_done", "handler_threw",
                                                     "not_found"}, k, b))
                              = Len(RequestsOfPass(k))
                        /\ \A a \in EventsBefore({"handler"}, k, b) :
                              \E c \in EventsBefore({"handler_done",
                                                     "handler_threw"}, k, b) :
                                  c > a /\ log[c].id = log[a].id)
    /\ [][(requests' # requests /\ iterations >= 1) =>
            /\ pc = "loop"
            /\ Len(batches) = iterations
            /\ Len(batches[iterations]) = Len(RequestsOfPass(iterations))
            /\ Len(batches[iterations]) >= 1
            /\ SubSeq(allMessages,
                      Len(allMessages) - Len(batches[iterations]) + 1,
                      Len(allMessages)) = batches[iterations]
            /\ Len(currentMessages) = Len(batches[iterations])
            /\ \A i \in 1..Len(currentMessages) :
                  IsWireFormOf(currentMessages[i], batches[iterations][i])
            /\ requests'[Len(requests')].messages = currentMessages]_vars

\* transport call 2 was issued after both handlers of pass 1 had settled
C24_Witness ==
    /\ Len(requests) >= 2
    /\ Len(batches[1]) = 2
    /\ Cardinality({a \in 1..Len(log) :
                      log[a].ev \in {"handler_done", "handler_threw"}
                      /\ log[a].k = 1}) = 2

----------------------------------------------------------------------------
(* C25 *)

\* what a tool-result message looks like on the wire: the role, the
\* sentinel id, and the result block without its trivial fields
WireOfResult(resultMessage) ==
    [role |-> "tool",
     message_id |-> <<0>>,
     content |-> <<[f \in DOMAIN resultMessage.content[1]
                          \ TrivialFields(resultMessage.content[1])
                      |-> resultMessage.content[1][f]]>>]

\* C25: the transport request of pass 1 carries the caller's initial
\* messages, and the request of every pass k >= 2 carries exactly the
\* serialized tool-result messages the dispatcher produced in pass k-1, in
\* order: neither the caller's initial messages nor the accumulated history
\* is sent again.
C25_RequestCarriesLastResultsOnly ==
    \A k \in 1..Len(requests) :
        IF k = 1 THEN requests[k].messages = InitialMessages
        ELSE /\ k - 1 <= Len(batches)
             /\ Len(requests[k].messages) = Len(batches[k - 1])
             /\ \A i \in 1..Len(batches[k - 1]) :
                   requests[k].messages[i] = WireOfResult(batches[k - 1][i])
             /\ \A i \in 1..Len(requests[k].messages) :
                   /\ requests[k].messages[i].role = "tool"
                   /\ \A j \in 1..Len(allMessages) :
                         allMessages[j].role # "tool" =>
                             requests[k].messages[i].message_id
                                 # allMessages[j].message_id

\* the request of pass 3 carries the one result of pass 2, after pass 2
\* carried the two results of pass 1
C25_Witness ==
    /\ Len(requests) = 3
    /\ Len(batches) >= 2
    /\ Len(batches[1]) = 2
    /\ Len(batches[2]) = 1
    /\ Len(requests[2].messages) = 2
    /\ Len(requests[3].messages) = 1

----------------------------------------------------------------------------
(* C26 *)

\* C26: the caller's initial state is in the transport request of pass k if
\* and only if k = 1; the requests of pass 2 and later carry no initial
\* state.
C26_InitialStateOnlyInFirstRequest ==
    \A k \in 1..Len(requests) :
        /\ Has(requests[k], "initial_state") <=> k = 1
        /\ k = 1 => requests[k].initial_state = initial_state

C26_Witness ==
    /\ Len(requests) = 3
    /\ Has(requests[1], "initial_state")
    /\ ~Has(requests[2], "initial_state")
    /\ ~Has(requests[3], "initial_state")

----------------------------------------------------------------------------
(* C27 *)

\* C27: the caller's config is in the transport request of pass 1 only; the
\* requests of pass 2 and later carry no config.
C27_ConfigOnlyInFirstRequest ==
    \A k \in 1..Len(requests) :
        /\ k = 1 => (Has(requests[k], "config") /\ requests[k].config = config)
        /\ k >= 2 => ~Has(requests[k], "config")

----------------------------------------------------------------------------
(* C28 *)

\* C28: a run of invoke without a dispatcher stops after the first
\* response, also when the response holds tool-call requests: it makes
\* exactly one transport call, calls no handler, adds no tool-result message
\* to the history, and ends in DONE, that is, it returns through the break
\* of the loop and does not report that the limit was reached.
C28_NoDispatcherStopsAfterFirstResponse ==
    ~toolExecutor =>
        /\ Len(requests) <= 1
        /\ handlerCalls = <<>>
        /\ batches = <<>>
        /\ \A i \in 1..Len(allMessages) : allMessages[i].role # "tool"
        /\ Returned =>
              /\ Len(requests) = 1
              /\ result[1].iterations = 1
              /\ log[Len(log)].ev = "break"
              /\ ~result[1].recursion_limit_reached

----------------------------------------------------------------------------
(* C29 *)

\* the step processes the tool-call request at the position of the loop
LookupStep ==
    /\ pc = "exec"
    /\ callIndex <= Len(toolCalls)
    /\ (results' # results \/ handlerCalls' # handlerCalls)

----------------------------------------------------------------------------
(* C31 *)

\* C31: executeToolCalls leaves the tool registry and the node index
\* unchanged and does not modify the messages it is given: in every step
\* that is not a registerTool call both Maps stay as they are, the messages
\* passed stay as they were passed while the call is in progress, and
\* nothing of the caller's state changes; what a batch leaves behind is the
\* handler calls and the result messages it returns, one per tool-call
\* request of the messages as they were passed.
C31_ExecuteBatchFrame ==
    /\ [](/\ pc # "idle" => execInput \in ExecInputs
          /\ (pc = "idle" /\ Len(batches) >= 1) =>
                Len(batches[Len(batches)])
                    = Cardinality(RequestPositions(execInput)))
    /\ [][/\ registrations' = registrations =>
                (tools' = tools /\ toolsByNode' = toolsByNode)
          /\ pc # "idle" => execInput' = execInput
          /\ invokeVars' = invokeVars
          /\ streamVars' = streamVars]_vars

\* a batch of three requests was executed with a tool registered: the
\* handler ran and the registry still holds the tool
C31_Witness ==
    /\ pc = "idle"
    /\ Len(batches) = 1
    /\ Len(batches[1]) = 3
    /\ Len(handlerCalls) >= 2
    /\ Len(registrations) = 1
    /\ MapHas(tools, registrations[1].name)
    /\ Len(getToolsForNode(toolsByNode, registrations[1].node)) = 1

----------------------------------------------------------------------------
(* C32 *)

\* the node tags of the registrations made
RegisteredNodes == {registrations[i].node : i \in 1..Len(registrations)}

\* the definitions getToolsForNode lists for a node
ListedForNode(node) ==
    {getToolsForNode(toolsByNode, node)[i] :
        i \in 1..Len(getToolsForNode(toolsByNode, node))}

\* the definitions of the name registry whose node tag is the node
RegisteredForNode(node) ==
    {MapGet(tools, name) : name \in {n \in RegisteredNames :
                                        MapGet(tools, n).node = node}}

\* C32: after any sequence of registerTool calls the node index agrees with
\* the name registry: getToolsForNode(n) lists exactly the definitions that
\* are currently registered and whose node tag is n, so a name registered
\* again under another node is not listed under its former node, and no
\* name is listed under two nodes.
C32_NodeIndexAgreesWithRegistry ==
    /\ \A node \in RegisteredNodes : ListedForNode(node) = RegisteredForNode(node)
    /\ \A node, other \in RegisteredNodes :
          node # other =>
              {def.name : def \in ListedForNode(node)}
                  \cap {def.name : def \in ListedForNode(other)} = {}

----------------------------------------------------------------------------
(* C33 *)

\* the message is, in wire form, among the messages of a transport request
\* after the first
SentAsPendingInput(resultMessage) ==
    \E k \in 2..Len(requests) :
        \E i \in 1..Len(requests[k].messages) :
            requests[k].messages[i] = WireOfResult(resultMessage)

\* C33: every tool-result message in the full history that invoke returns
\* was submitted to the remote service as pending input of a later transport
\* call of the same run: no handler is executed whose result is appended to
\* the history and never sent.
C33_EveryToolResultIsSent ==
    Returned =>
        /\ \A j \in 1..Len(result[1].all_messages) :
              result[1].all_messages[j].role = "tool" =>
                  SentAsPendingInput(result[1].all_messages[j])
        /\ \A k \in 1..Len(batches) : Len(requests) >= k + 1

----------------------------------------------------------------------------
(* C36 *)

\* C36: if the observer throws or rejects in pass k, invoke rejects with
\* that error.  The failure is the last thing that happens in the run: no
\* tool-call request of pass k is looked up and no handler of pass k is
\* called, transport call k+1 is not issued, and no result is returned.
C36_ObserverFailureAbortsRun ==
    \A b \in PositionsOf("observer_error") :
        /\ b = Len(log)
        /\ pc = "failed"
        /\ thrown = <<ObserverError>>
        /\ result = <<>>
        /\ Len(requests) = log[b].k
        /\ iterations = log[b].k
        /\ Len(batches) < log[b].k
        /\ \A c \in 1..Len(handlerCalls) : handlerCalls[c].batch < log[b].k
        /\ \A a \in 1..Len(log) :
              log[a].k = log[b].k =>
                  log[a].ev \in {"request", "response", "emit", "observer_error"}

\* the observer failed in pass 2 on a response that asks for a registered
\* tool, after pass 1 had run a handler
C36_Witness ==
    /\ pc = "failed"
    /\ thrown = <<ObserverError>>
    /\ Len(requests) = 2
    /\ toolExecutor
    /\ ContainsToolCallRequest(responses[2])
    /\ \A i \in 1..Len(ExtractToolCalls(MessagesOf(2))) :
          MapHas(tools, ExtractToolCalls(MessagesOf(2))[i].name)
    /\ Len(handlerCalls) >= 1

----------------------------------------------------------------------------
(* C38 *)

\* C38: in invoke with a dispatcher attached, the tool-call presence
\* computed for a response is true if and only if the response messages
\* hold a tool-call request, for which executeToolCalls returns a result:
\* every batch the dispatcher returns has as many results as the response
\* has requests, at least one, and hence the pending input of every pass
\* k >= 2 is not empty.
C38_PresenceIffBatchNonEmpty ==
    toolExecutor =>
        /\ pc \in {"observer", "dispatch"} =>
              (hasToolCalls <=>
                  RequestPositions(MessagesOf(Len(responses))) # {})
        /\ pc \in {"exec", "handler"} =>
              /\ hasToolCalls
              /\ RequestPositions(MessagesOf(Len(responses))) # {}
        /\ \A k \in 1..Len(batches) :
              /\ Len(batches[k]) >= 1
              /\ Len(batches[k]) = Cardinality(RequestPositions(MessagesOf(k)))
        /\ \A k \in 2..Len(requests) : Len(requests[k].messages) >= 1
        /\ Returned =>
              (Len(batches) = Len(responses) - 1
                  <=> RequestPositions(MessagesOf(Len(responses))) = {})

\* pass 1 answered with a text message followed by a message with two
\* requests: the presence was true, the batch has two results, and pass 2
\* sent them
C38_Witness ==
    /\ toolExecutor
    /\ Len(requests) >= 2
    /\ responses[1] = ServerResponse("mixed", 1)
    /\ Len(batches[1]) = 2
    /\ Len(requests[2].messages) = 2

----------------------------------------------------------------------------
(* C39 *)

\* C39: for every tool result forwarded to the next pass, the serialized
\* tool-result block has the correlation id, the status and the output
\* value of the result: the output is on the wire for every value a handler
\* can return, an empty list included.
C39_ForwardedResultCarriesOutput ==
    \A k \in 2..Len(requests) :
        \A i \in 1..Len(requests[k].messages) :
            LET block == requests[k].messages[i].content[1]
                original == batches[k - 1][i].content[1]
            IN  /\ block.type = "tool_result"
                /\ Has(block, "call_id") /\ block.call_id = original.call_id
                /\ Has(block, "status") /\ block.status = original.status
                /\ Has(block, "output") /\ block.output = original.output

----------------------------------------------------------------------------
(* C34 *)

\* the lookups and the settlements of handlers in the log
LookupEvents == {"handler", "not_found"}

SettleEvents == {"handler_done", "handler_threw"}

\* C34: executeToolCalls calls the handlers strictly one at a time, in the
\* order of the requests.  After a handler is started the next event of the
\* run is that this handler settles: no other request is looked up and no
\* other handler is started before, so at most one handler of a batch is in
\* flight at any time, and the requests are processed in their order.
C34_HandlersRunOneAtATime ==
    /\ Cardinality({a \in 1..Len(log) : log[a].ev = "handler"})
         - Cardinality({a \in 1..Len(log) : log[a].ev \in SettleEvents})
           = IF pc = "handler" THEN 1 ELSE 0
    /\ Cardinality({a \in 1..Len(log) : log[a].ev = "handler"}) = Len(handlerCalls)
    /\ \A a \in 1..Len(log) :
          log[a].ev = "handler" =>
              IF a = Len(log) THEN pc = "handler"
              ELSE /\ log[a + 1].ev \in SettleEvents
                   /\ log[a + 1].id = log[a].id
    /\ pc \in {"exec", "handler"} =>
          /\ Cardinality({a \in 1..Len(log) :
                            log[a].ev \in LookupEvents
                            /\ log[a].k = Len(responses)})
                = Len(results) + (IF pc = "handler" THEN 1 ELSE 0)
          /\ \A i \in 1..Len(results) :
                results[i].content[1].call_id
                    = RequestsOfPass(Len(responses))[i].id
          /\ pc = "handler" =>
                log[Len(log)].id
                    = RequestsOfPass(Len(responses))[Len(results) + 1].id

\* the second handler of a batch was started after the first had settled
C34_Witness ==
    /\ pc = "handler"
    /\ callIndex = 2
    /\ Len(results) = 1
    /\ Len(handlerCalls) = 2
    /\ handlerCalls[1].batch = handlerCalls[2].batch


(***************************************************************************)
(* C37: termination of a run.                                              *)
(***************************************************************************)

\* the promise of invoke has rejected with the error of the observer
ObserverFailed == pc = "failed" /\ thrown = <<ObserverError>>

\* C37 (as stated): if every transport call returns a response and every
\* handler and observer call settles, the run eventually returns a result,
\* after at most cap passes.
C37_EveryRunReturns ==
    <>(Returned /\ iterations <= recursion_limit)

\* C37 (corrected): under the same conditions the run eventually ends, after
\* at most cap passes, and it ends with a result unless an observer call
\* settled by rejecting, in which case it ends with the observer's error.
C37_EveryRunEnds ==
    /\ [](iterations <= recursion_limit)
    /\ <>(Returned \/ ObserverFailed)

\* a run that used every pass of its cap, waited for the observer and for a
\* handler that rejected, and returned its result
C37_Witness ==
    /\ Returned
    /\ iterations = recursion_limit
    /\ recursion_limit >= 2
    /\ partials # <<>>
    /\ \E i \in 1..Len(log) : log[i].ev = "handler_threw"
    /\ \E i \in 1..Len(log) : log[i].ev = "handler_done"


(***************************************************************************)
(* C35: two interleaved runs keep separate accumulators.                   *)
(***************************************************************************)

\* what run r itself received and computed during its first k passes, in
\* the order of the passes: the messages of each response, then the tool
\* results of the pass if there were any
RECURSIVE OwnHistory(_, _)
OwnHistory(r, k) ==
    IF k = 0 THEN <<>>
    ELSE OwnHistory(r, k - 1)
         \o invocations[r].responses[k].data.messages
         \o (IF k <= Len(invocations[r].batches)
             THEN invocations[r].batches[k] ELSE <<>>)

\* the pending input of run r: what the caller passed, or its own last
\* tool results in wire form
OwnPendingInput(r) ==
    IF invocations[r].batches = <<>> THEN RunMessages(r)
    ELSE SerializeAll(invocations[r].batches[Len(invocations[r].batches)])

\* the transport calls that belong to run r
OwnTransportCalls(r) == {TransportCall(r, k) : k \in 1..MaxRunCap + 1}

\* the message came from the service in answer to run r, or answers a
\* request of such a message
OwnMessage(r, m) ==
    IF m.role = "tool"
    THEN \A i \in 1..Len(m.content) : m.content[i].call_id[1] \in OwnTransportCalls(r)
    ELSE m.message_id[1] \in OwnTransportCalls(r)

\* C35: under every interleaving of the steps of two runs, the iteration
\* counter of each run counts the run's own transport calls, its pending
\* input is its own input or its own last tool results, and its history
\* consists of its own responses and tool results, in order; the result it
\* returns reports the same.
C35_RunsKeepSeparateAccumulators ==
    \A r \in RunIds :
        invocations[r].pc # "start" =>
            /\ FrameOf(r).iterations = Len(invocations[r].requests)
            /\ FrameOf(r).iterations <= invocations[r].recursion_limit
            /\ FrameOf(r).allMessages = OwnHistory(r, Len(invocations[r].responses))
            /\ \A i \in 1..Len(FrameOf(r).allMessages) :
                   OwnMessage(r, FrameOf(r).allMessages[i])
            /\ FrameOf(r).currentMessages = OwnPendingInput(r)
            /\ FrameOf(r).lastResponse =
                   IF invocations[r].responses = <<>> THEN <<>>
                   ELSE <<invocations[r].responses[Len(invocations[r].responses)]>>
            /\ invocations[r].pc = "returned" =>
                   /\ invocations[r].result[1].iterations = Len(invocations[r].requests)
                   /\ invocations[r].result[1].all_messages =
                          OwnHistory(r, Len(invocations[r].responses))

\* both runs are under way at the same time: each has had a tool pass, run
\* 1 waits for a handler and run 2 for the observer
C35_Witness ==
    /\ invocations[1].pc = "handler"
    /\ invocations[2].pc = "observer"
    /\ Len(invocations[1].batches) = 1
    /\ Len(invocations[2].batches) = 1
    /\ FrameOf(1).allMessages # FrameOf(2).allMessages

====
